---- MODULE Spec2Model ----
(***************************************************************************)
(* Kaguya decision engine (src/kaguya/cerveau.py) as a state machine.      *)
(*                                                                         *)
(* Numbers: every Python float of the engine is a fixed-point integer in   *)
(* units of 1/UN (UN = 10000 stands for 1.0); a product of two such values *)
(* is Mul(a, b), rounded down.  sim_minutes is a whole number of minutes   *)
(* (the code only ever adds 5.0 to it).                                    *)
(*                                                                         *)
(* Randomness: self._rng = random.Random(seed) is a deterministic stream   *)
(* fixed by the seed.  It is modelled by a linear congruential generator   *)
(* whose state is the variable _rng; the seed is chosen in Init.  Every    *)
(* draw of the code consumes one element of the stream, in code order.     *)
(***************************************************************************)
EXTENDS Integers, Sequences, FiniteSets, TLC

VARIABLES
    _rng,               \* state of self._rng
    heure,              \* wall-clock hour read by datetime.now().hour
    tick,
    sim_minutes,
    sim_day_minutes,
    sim_day_phase,
    pc_day_phase,
    _last_day_index,
    is_paused,
    etat,               \* EtatInterne
    etat_monde,         \* EtatMonde
    intention_active,   \* IntentionActive or None
    idees_backlog,
    memoire,            \* Memoire: court_terme, long_terme, souvenirs_marquants, routines
    journal_evolutif,
    dashboard_history,
    journal_debug,      \* the entries appended by the latest decision / tick
    last_action_tick,
    competences,
    action_history,
    meta,
    cooldowns,
    model_router,       \* ModelRouter: its settings and its run-time state
    llm_last_result,    \* the latest result of ask_llm, or None
    permissions,        \* Permissions: whitelist_capacites, sensibles_interdites, refus_log
    contrainte_locale,  \* ContrainteExecutionLocale
    fs,                 \* file system: path -> content
    trace,              \* history variable: intermediate values of the latest tick
    retour,             \* history variable: latest operation called and its result
    sauve,              \* history variable: path -> the engine at its latest save, while
                        \* the file written is intact
    pas,                \* number of calls other than boucle_de_vie made so far
    horloge,            \* time.time(), in seconds
    history,            \* ChatService.history
    fils                \* the request threads of the HTTP server: thread -> its position

vars == << _rng, heure, tick, sim_minutes, sim_day_minutes, sim_day_phase,
           pc_day_phase, _last_day_index, is_paused, etat, etat_monde,
           intention_active, idees_backlog, memoire, journal_evolutif,
           dashboard_history, journal_debug, last_action_tick, competences,
           action_history, meta, cooldowns, model_router, llm_last_result,
           permissions, contrainte_locale, fs,
           trace, retour, sauve, pas, horloge, history, fils >>

\* the state of the host of the engine: its clock, the chat service, the server
hote == << horloge, history, fils >>

-----------------------------------------------------------------------------
(* Bounds of the model *)

\* ticks explored from a fresh engine in the long-run specification
MaxLongTick == 290
\* ticks explored in the specifications that interleave other operations
MaxTick == 2
\* text commands per run
MaxPas == 3
\* successive calls of choisir_action, or of _anti_loop_penalty, per run
MaxDecisions == 2
\* saves, loads, restarts and damages to the snapshot files per run
MaxOps == 4
\* length of a run of identical actions in a prepared action history
MaxRun == 20
\* denial records in the audit log of the permissions per run
MaxRefus == 2
\* commands in the list a text-generation engine returns
MaxCommandes == 3
\* requests and steering lines per run of the text-generation requests
MaxDemandes == 2
\* requests and steering lines per run of the routing of the requests
MaxRoutes == 2

-----------------------------------------------------------------------------
(* Program constants *)

UN == 10000
SIM_MIN_PER_TICK == 5
EMA_ALPHA == 1500
CONSOLIDATION_EVERY_TICKS == 48
SNAPSHOT_VERSION == 3
AUTOSAVE_EVERY_TICKS == 60

\* a returned value, tagged by its Python type
Rien == [none |-> TRUE]
Bool(b) == [bool |-> b]
Str(s) == [str |-> s]
Fmt(parts) == [fmt |-> parts]
\* an exception that leaves the call, tagged by its class
Leve(classe) == [leve |-> classe]

\* Optional values: None is the empty sequence, a value x that is present is << x >>
None == << >>
Some(x) == << x >>
The(o) == o[1]

Min(a, b) == IF a < b THEN a ELSE b
Max(a, b) == IF a > b THEN a ELSE b
Mul(a, b) == (a * b) \div UN

\* s[-n:]
Tail_n(s, n) == IF Len(s) <= n THEN s ELSE SubSeq(s, Len(s) - n + 1, Len(s))
\* s[:n]
Head_n(s, n) == IF Len(s) <= n THEN s ELSE SubSeq(s, 1, n)

RECURSIVE SumSeq(_)
SumSeq(s) == IF s = << >> THEN 0 ELSE Head(s) + SumSeq(Tail(s))

Count(s, P(_)) == Cardinality({i \in 1..Len(s) : P(s[i])})

-----------------------------------------------------------------------------
(* random.Random *)

RngMod == 65537
RngMul == 75
RngInc == 74

RngNext(x) == (RngMul * x + RngInc) % RngMod
\* random(): a float in [0, 1)
RngRandom(x) == (x * UN) \div RngMod
\* uniform(a, b) == a + (b - a) * random()
RngUniform(x, a, b) == a + ((b - a) * x) \div RngMod
\* randint(a, b)
RngRandint(x, a, b) == a + (x % (b - a + 1))
\* choice(seq)
RngChoice(x, seq) == seq[(x % Len(seq)) + 1]

-----------------------------------------------------------------------------
(* MondeSimule.standard *)

Actions == << "rest", "organize", "practice", "explore", "reflect", "idle", "challenge" >>
ActionSet == {Actions[i] : i \in 1..Len(Actions)}

ActionProfile(br, ec, cc, sg, kg, fg, sf) ==
    [base_risk |-> br, energy_cost |-> ec, clarity_cost |-> cc, stability_gain |-> sg,
     knowledge_gain |-> kg, fatigue_gain |-> fg, stress_on_fail |-> sf]

action_profiles ==
    [a \in ActionSet |->
        CASE a = "rest"      -> ActionProfile( 200, -1000, -400,  500,    0, -1000,  400)
          [] a = "organize"  -> ActionProfile( 800,   800,  500, 1000,  300,   400,  600)
          [] a = "practice"  -> ActionProfile(1400,  1200,  900,  500, 1200,   800,  900)
          [] a = "explore"   -> ActionProfile(2200,  1600, 1000,  300, 1800,   900, 1200)
          [] a = "reflect"   -> ActionProfile( 500,   500, -300,  800,  900,  -200,  500)
          [] a = "idle"      -> ActionProfile( 100,  -300, -200,  200,    0,  -500,  300)
          [] a = "challenge" -> ActionProfile(3500,  2000, 1600,  700, 2000,  1200, 1800)]

-----------------------------------------------------------------------------
(* The engine object.  Self is CerveauKaguya's self: the operators below   *)
(* take it as e and return the updated object, as the methods mutate self. *)

Self ==
    [_rng |-> _rng, tick |-> tick, sim_minutes |-> sim_minutes,
     sim_day_minutes |-> sim_day_minutes, sim_day_phase |-> sim_day_phase,
     pc_day_phase |-> pc_day_phase, _last_day_index |-> _last_day_index,
     is_paused |-> is_paused, etat |-> etat, etat_monde |-> etat_monde,
     intention_active |-> intention_active, idees_backlog |-> idees_backlog,
     memoire |-> memoire, journal_evolutif |-> journal_evolutif,
     dashboard_history |-> dashboard_history, journal_debug |-> journal_debug,
     last_action_tick |-> last_action_tick, competences |-> competences,
     action_history |-> action_history, meta |-> meta, cooldowns |-> cooldowns,
     model_router |-> model_router, llm_last_result |-> llm_last_result,
     permissions |-> permissions,
     contrainte_locale |-> contrainte_locale, trace |-> trace]

Becomes(e) ==
    /\ _rng' = e._rng
    /\ tick' = e.tick
    /\ sim_minutes' = e.sim_minutes
    /\ sim_day_minutes' = e.sim_day_minutes
    /\ sim_day_phase' = e.sim_day_phase
    /\ pc_day_phase' = e.pc_day_phase
    /\ _last_day_index' = e._last_day_index
    /\ is_paused' = e.is_paused
    /\ etat' = e.etat
    /\ etat_monde' = e.etat_monde
    /\ intention_active' = e.intention_active
    /\ idees_backlog' = e.idees_backlog
    /\ memoire' = e.memoire
    /\ journal_evolutif' = e.journal_evolutif
    /\ dashboard_history' = e.dashboard_history
    /\ journal_debug' = e.journal_debug
    /\ last_action_tick' = e.last_action_tick
    /\ competences' = e.competences
    /\ action_history' = e.action_history
    /\ meta' = e.meta
    /\ cooldowns' = e.cooldowns
    /\ model_router' = e.model_router
    /\ llm_last_result' = e.llm_last_result
    /\ permissions' = e.permissions
    /\ contrainte_locale' = e.contrainte_locale
    /\ trace' = e.trace

-----------------------------------------------------------------------------
(* Dataclasses *)

\* mutant of Borne: the upper clamp is forgotten
Borne_sans_plafond(x) == Max(0, x)

Borne(x) == Max(0, Min(UN, x))

EtatInterne ==
    [energy |-> 7000, clarity |-> 6500, stability |-> 7000, curiosity |-> 6000,
     risk_tolerance |-> 4500, fatigue |-> 2500, stress |-> 2500]

EtatInterne_borner(s) ==
    [energy |-> Borne(s.energy), clarity |-> Borne(s.clarity),
     stability |-> Borne(s.stability), curiosity |-> Borne(s.curiosity),
     risk_tolerance |-> Borne(s.risk_tolerance), fatigue |-> Borne(s.fatigue),
     stress |-> Borne(s.stress)]

EtatMonde ==
    [bruit_instabilite |-> 3500, opportunites |-> 5500, danger |-> 3000,
     nouveaute |-> 7000, stabilite_globale |-> 6000]

EtatMonde_borner(w) ==
    [bruit_instabilite |-> Borne(w.bruit_instabilite), opportunites |-> Borne(w.opportunites),
     danger |-> Borne(w.danger), nouveaute |-> Borne(w.nouveaute),
     stabilite_globale |-> Borne(w.stabilite_globale)]

IntentionActive(nom, objectif_lie, actions_preferees, tick_fin) ==
    [nom |-> nom, objectif_lie |-> objectif_lie, actions_preferees |-> actions_preferees,
     tick_fin |-> tick_fin, cancel_on_critical |-> TRUE]

Idee(intitule, contexte, cout_estime, risque_estime, priorite, recence_tick) ==
    [intitule |-> intitule, contexte |-> contexte, cout_estime |-> cout_estime,
     risque_estime |-> risque_estime, priorite |-> priorite, recence_tick |-> recence_tick]

ContextKeys == {"danger_high", "opportunity_high", "neutral"}

MemoireAction ==
    [n_total |-> 0, n_success |-> 0, n_fail |-> 0, last_tick |-> 0, ema_reward |-> 0,
     ema_cost |-> 0, recent_fail_streak |-> 0, recent_success_streak |-> 0,
     avoid_until_tick |-> 0, contexts |-> [k \in ContextKeys |-> None]]

Competence == [niveau |-> 1, experience |-> 0, seuil |-> UN]

SouvenirMarquant(type, gravite, action, t, state) ==
    [type |-> type, gravite |-> gravite, action |-> action, tick |-> t, state |-> state]

Phases == {"night", "morning", "day", "evening"}

\* Memoire() followed by init_actions(self.monde.actions)
Memoire ==
    [court_terme |-> << >>,
     long_terme |-> [a \in ActionSet |-> MemoireAction],
     souvenirs_marquants |-> << >>,
     routines |-> [a \in ActionSet |-> [p \in Phases |-> 0]]]

\* mutant of Memoire_enregistrer_evenement: a full log drops the new record
Memoire_enregistrer_evenement_evince_dernier(m, evenement) ==
    LET ct == Append(m.court_terme, evenement)
    IN [m EXCEPT !.court_terme = IF Len(ct) > 80 THEN m.court_terme ELSE ct]

Memoire_enregistrer_evenement(m, evenement) ==
    LET ct == Append(m.court_terme, evenement)
    IN [m EXCEPT !.court_terme = IF Len(ct) > 80 THEN Tail(ct) ELSE ct]

whitelist_capacites == {"simulate", "log", "snapshot", "llm"}
sensibles_interdites == {"network", "filesystem_delete", "shell_exec"}

\* mutant of Permissions_autorise: only the forbidden list is looked at
Permissions_autorise_liste_noire(e, capacite) ==
    IF capacite \in e.permissions.sensibles_interdites
    THEN [e |-> [e EXCEPT !.permissions.refus_log =
                    Append(@, [tick |-> e.tick, capacite |-> capacite,
                               raison |-> "capacite non autorisee"])],
          val |-> FALSE]
    ELSE [e |-> e, val |-> TRUE]

\* Permissions.autorise: the engine after the call, and the answer
Permissions_autorise(e, capacite) ==
    IF capacite \in e.permissions.sensibles_interdites
       \/ capacite \notin e.permissions.whitelist_capacites
    THEN [e |-> [e EXCEPT !.permissions.refus_log =
                    Append(@, [tick |-> e.tick, capacite |-> capacite,
                               raison |-> "capacite non autorisee"])],
          val |-> FALSE]
    ELSE [e |-> e, val |-> TRUE]

\* mutant of ContrainteExecutionLocale_verifier_raises: only the offline flag
\* is looked at
ContrainteExecutionLocale_verifier_hors_ligne_seul(c) == ~c.hors_ligne_strict

\* ContrainteExecutionLocale.verifier raises
ContrainteExecutionLocale_verifier_raises(c) ==
    (~c.hors_ligne_strict) \/ c.api_externe_autorisee

-----------------------------------------------------------------------------
(* Time, world drift, passive recovery *)

_compute_pc_day_phase(h) == IF h < 6 \/ h >= 22 THEN "night" ELSE "day"

_compute_sim_day_phase(m) ==
    IF m < 360 THEN "night"
    ELSE IF m < 720 THEN "morning"
    ELSE IF m < 1080 THEN "day"
    ELSE "evening"

\* mutant of _tick_time_update: the simulated clock does not advance
_tick_time_update_sans_minutes(e, h) ==
    [e EXCEPT !.tick = e.tick + 1, !.pc_day_phase = _compute_pc_day_phase(h)]

_tick_time_update(e, h) ==
    LET sm == e.sim_minutes + SIM_MIN_PER_TICK
    IN [e EXCEPT !.tick = e.tick + 1,
                 !.sim_minutes = sm,
                 !.sim_day_minutes = sm % 1440,
                 !.sim_day_phase = _compute_sim_day_phase(sm % 1440),
                 !.pc_day_phase = _compute_pc_day_phase(h)]

_evolve_world(e) ==
    LET w == e.etat_monde
        x1 == RngNext(e._rng)
        x2 == RngNext(x1)
        x3 == RngNext(x2)
        x4 == RngNext(x3)
        bruit == w.bruit_instabilite + RngUniform(x1, -200, 200)
        danger == w.danger + RngUniform(x2, -100, 100) + Mul(bruit, 30)
        opp == w.opportunites + RngUniform(x3, -100, 100) - Mul(danger, 20) + 20
        nouv == w.nouveaute - 40
        stab == w.stabilite_globale + RngUniform(x4, -100, 100) - Mul(bruit, 40)
    IN [e EXCEPT !._rng = x4,
                 !.etat_monde = EtatMonde_borner(
                    [bruit_instabilite |-> bruit, opportunites |-> opp, danger |-> danger,
                     nouveaute |-> nouv, stabilite_globale |-> stab])]

_apply_action_world_effect(e, action, success) ==
    LET w == e.etat_monde
        w2 == CASE action = "organize" ->
                    [w EXCEPT !.stabilite_globale = @ + (IF success THEN 300 ELSE 150),
                              !.bruit_instabilite = @ - (IF success THEN 250 ELSE 125)]
                [] action = "explore" ->
                    [w EXCEPT !.nouveaute = @ + (IF success THEN 600 ELSE 300),
                              !.opportunites = @ + (IF success THEN 300 ELSE 150)]
                [] action = "challenge" ->
                    [w EXCEPT !.opportunites = @ + (IF success THEN 400 ELSE 200),
                              !.danger = @ + (IF success THEN 300 ELSE 450)]
                [] action = "idle" ->
                    [w EXCEPT !.nouveaute = @ - 100]
                [] OTHER -> w
    IN [e EXCEPT !.etat_monde = EtatMonde_borner(w2)]

_passive_recovery(e) ==
    LET night == e.sim_day_phase = "night"
        de == IF night THEN 300 ELSE 120
        dc == IF night THEN 200 ELSE 80
        df == IF night THEN -250 ELSE -100
        ds == IF night THEN -120 ELSE -60
        boost == IF e.pc_day_phase = "night" THEN 11000 ELSE UN
        s == e.etat
    IN [e EXCEPT !.etat = EtatInterne_borner(
            [s EXCEPT !.energy = @ + Mul(de, boost),
                      !.clarity = @ + Mul(dc, boost),
                      !.fatigue = @ + Mul(df, boost),
                      !.stress = @ + Mul(ds, boost)])]

-----------------------------------------------------------------------------
(* Objectives and intention *)

ObjectifNames == << "Recover", "Stabilize", "Explore", "Progress" >>

ObjectifPriority(name) ==
    CASE name = "Recover" -> 10000
      [] name = "Stabilize" -> 9000
      [] name = "Explore" -> 6000
      [] name = "Progress" -> 5000

ObjectifIsActive(name, s, rec, stb) ==
    CASE name = "Recover" -> s.energy < 3500 \/ s.clarity < 3500 \/ s.fatigue > 7000
      [] name = "Stabilize" -> s.stability < 4500 \/ s.stress > 6500
      [] name = "Explore" -> s.curiosity > 6000 /\ s.energy > 5000
                             /\ s.stability > 5500 /\ s.stress < 7000
      [] name = "Progress" -> ~(rec \/ stb)

ObjectifFit(name, action) ==
    CASE name = "Recover" ->
            (CASE action = "rest" -> 10000 [] action = "idle" -> 5000
               [] action = "reflect" -> 3000 [] OTHER -> 0)
      [] name = "Stabilize" ->
            (CASE action = "organize" -> 10000 [] action = "reflect" -> 6000
               [] action = "rest" -> 4000 [] OTHER -> 0)
      [] name = "Explore" ->
            (CASE action = "explore" -> 10000 [] action = "challenge" -> 3000 [] OTHER -> 0)
      [] name = "Progress" ->
            (CASE action = "practice" -> 10000 [] action = "reflect" -> 4000
               [] action = "organize" -> 2000 [] OTHER -> 0)

\* mutant of _active_objectifs: Progress does not depend on Recover and
\* Stabilize
_active_objectifs_progress_toujours(e) ==
    LET Act(n) == ObjectifIsActive(n, e.etat, FALSE, FALSE)
    IN SelectSeq(ObjectifNames, Act)

\* the names of the active objectives, in declaration order
_active_objectifs(e) ==
    LET rec == ObjectifIsActive("Recover", e.etat, FALSE, FALSE)
        stb == ObjectifIsActive("Stabilize", e.etat, rec, FALSE)
        Act(n) == ObjectifIsActive(n, e.etat, rec, stb)
    IN SelectSeq(ObjectifNames, Act)

\* mutant of _intention_invalid: a critical state does not cancel the intention
_intention_invalid_sans_critique(e) ==
    IF e.intention_active = None THEN TRUE
    ELSE e.tick > The(e.intention_active).tick_fin

_intention_invalid(e) ==
    IF e.intention_active = None THEN TRUE
    ELSE IF e.tick > The(e.intention_active).tick_fin THEN TRUE
    ELSE IF The(e.intention_active).cancel_on_critical
            /\ (e.etat.energy < 1500 \/ e.etat.stress > 9000) THEN TRUE
    ELSE FALSE

InSeq(x, s) == \E i \in 1..Len(s) : s[i] = x

\* mutant of _choose_intention: Stabilize is preferred to Recover
_choose_intention_stabilise_dabord(e, actifs) ==
    IF e.intention_active # None /\ ~_intention_invalid(e) THEN e
    ELSE
        LET x == RngNext(e._rng)
            New(nom, obj, prefs, lo, hi) ==
                [e EXCEPT !._rng = x,
                          !.intention_active =
                              Some(IntentionActive(nom, obj, prefs,
                                                   e.tick + RngRandint(x, lo, hi)))]
        IN IF e.idees_backlog # << >> /\ e.idees_backlog[1].priorite > 7000
           THEN New("tester une idee", "Idea", << "explore", "practice", "reflect" >>, 5, 12)
           ELSE IF InSeq("Stabilize", actifs)
           THEN New("stabiliser", "Stabilize", << "organize", "reflect", "rest" >>, 6, 12)
           ELSE IF InSeq("Recover", actifs)
           THEN New("recuperer", "Recover", << "rest", "reflect", "idle" >>, 6, 12)
           ELSE IF e.etat_monde.nouveaute > 5500
           THEN New("explorer", "Explore", << "explore", "reflect", "practice" >>, 8, 20)
           ELSE New("progresser", "Progress", << "practice", "organize", "reflect" >>, 6, 16)

_choose_intention(e, actifs) ==
    IF e.intention_active # None /\ ~_intention_invalid(e) THEN e
    ELSE
        LET x == RngNext(e._rng)
            New(nom, obj, prefs, lo, hi) ==
                [e EXCEPT !._rng = x,
                          !.intention_active =
                              Some(IntentionActive(nom, obj, prefs,
                                                   e.tick + RngRandint(x, lo, hi)))]
        IN IF e.idees_backlog # << >> /\ e.idees_backlog[1].priorite > 7000
           THEN New("tester une idee", "Idea", << "explore", "practice", "reflect" >>, 5, 12)
           ELSE IF InSeq("Recover", actifs)
           THEN New("recuperer", "Recover", << "rest", "reflect", "idle" >>, 6, 12)
           ELSE IF InSeq("Stabilize", actifs)
           THEN New("stabiliser", "Stabilize", << "organize", "reflect", "rest" >>, 6, 12)
           ELSE IF e.etat_monde.nouveaute > 5500
           THEN New("explorer", "Explore", << "explore", "reflect", "practice" >>, 8, 20)
           ELSE New("progresser", "Progress", << "practice", "organize", "reflect" >>, 6, 16)

-----------------------------------------------------------------------------
(* Gating *)

\* mutant of _gated_actions: no filter on low energy
_gated_actions_sans_energie(e) ==
    LET Free(a) == ~(e.memoire.long_terme[a].avoid_until_tick > e.tick
                     \/ e.cooldowns[a] > e.tick)
        c0 == SelectSeq(Actions, Free)
        NotChallenge(a) == a # "challenge"
        c2 == IF e.etat.stability < 3000 THEN SelectSeq(c0, NotChallenge) ELSE c0
        c3 == IF e.etat.stress > 8500 THEN SelectSeq(c2, NotChallenge) ELSE c2
        Pref(a) == InSeq(a, The(e.intention_active).actions_preferees)
        preferred == IF e.intention_active # None THEN SelectSeq(c3, Pref) ELSE << >>
    IN IF preferred # << >> THEN preferred
       ELSE IF c3 # << >> THEN c3 ELSE << "rest" >>

\* mutant of _gated_actions: an avoided action stays a candidate
_gated_actions_sans_evitement(e) ==
    LET Free(a) == ~(e.cooldowns[a] > e.tick)
        c0 == SelectSeq(Actions, Free)
        Low(a) == a \in {"rest", "idle", "reflect"}
        c1 == IF e.etat.energy < 2000 THEN SelectSeq(c0, Low) ELSE c0
        NotChallenge(a) == a # "challenge"
        c2 == IF e.etat.stability < 3000 THEN SelectSeq(c1, NotChallenge) ELSE c1
        c3 == IF e.etat.stress > 8500 THEN SelectSeq(c2, NotChallenge) ELSE c2
        Pref(a) == InSeq(a, The(e.intention_active).actions_preferees)
        preferred == IF e.intention_active # None THEN SelectSeq(c3, Pref) ELSE << >>
    IN IF preferred # << >> THEN preferred
       ELSE IF c3 # << >> THEN c3 ELSE << "rest" >>

\* mutant of _gated_actions: no filter on high stress
_gated_actions_sans_stress(e) ==
    LET Free(a) == ~(e.memoire.long_terme[a].avoid_until_tick > e.tick
                     \/ e.cooldowns[a] > e.tick)
        c0 == SelectSeq(Actions, Free)
        Low(a) == a \in {"rest", "idle", "reflect"}
        c1 == IF e.etat.energy < 2000 THEN SelectSeq(c0, Low) ELSE c0
        NotChallenge(a) == a # "challenge"
        c2 == IF e.etat.stability < 3000 THEN SelectSeq(c1, NotChallenge) ELSE c1
        c3 == c2
        Pref(a) == InSeq(a, The(e.intention_active).actions_preferees)
        preferred == IF e.intention_active # None THEN SelectSeq(c3, Pref) ELSE << >>
    IN IF preferred # << >> THEN preferred
       ELSE IF c3 # << >> THEN c3 ELSE << "rest" >>

\* mutant of _gated_actions: the candidates are not restricted to the preferred actions
_gated_actions_sans_preference(e) ==
    LET Free(a) == ~(e.memoire.long_terme[a].avoid_until_tick > e.tick
                     \/ e.cooldowns[a] > e.tick)
        c0 == SelectSeq(Actions, Free)
        Low(a) == a \in {"rest", "idle", "reflect"}
        c1 == IF e.etat.energy < 2000 THEN SelectSeq(c0, Low) ELSE c0
        NotChallenge(a) == a # "challenge"
        c2 == IF e.etat.stability < 3000 THEN SelectSeq(c1, NotChallenge) ELSE c1
        c3 == IF e.etat.stress > 8500 THEN SelectSeq(c2, NotChallenge) ELSE c2
        Pref(a) == InSeq(a, The(e.intention_active).actions_preferees)
        preferred == IF e.intention_active # None THEN SelectSeq(c3, Pref) ELSE << >>
    IN IF c3 # << >> THEN c3 ELSE << "rest" >>

_gated_actions(e) ==
    LET Free(a) == ~(e.memoire.long_terme[a].avoid_until_tick > e.tick
                     \/ e.cooldowns[a] > e.tick)
        c0 == SelectSeq(Actions, Free)
        Low(a) == a \in {"rest", "idle", "reflect"}
        c1 == IF e.etat.energy < 2000 THEN SelectSeq(c0, Low) ELSE c0
        NotChallenge(a) == a # "challenge"
        c2 == IF e.etat.stability < 3000 THEN SelectSeq(c1, NotChallenge) ELSE c1
        c3 == IF e.etat.stress > 8500 THEN SelectSeq(c2, NotChallenge) ELSE c2
        Pref(a) == InSeq(a, The(e.intention_active).actions_preferees)
        preferred == IF e.intention_active # None THEN SelectSeq(c3, Pref) ELSE << >>
    IN IF preferred # << >> THEN preferred
       ELSE IF c3 # << >> THEN c3 ELSE << "rest" >>

-----------------------------------------------------------------------------
(* Scoring *)

_skill_modifiers(e, action) ==
    LET lvl == e.competences[action].niveau
    IN [risk_mult |-> Max(7500, UN - 200 * (lvl - 1)),
        energy_mult |-> Max(7800, UN - 150 * (lvl - 1)),
        reward_mult |-> Min(12500, UN + 200 * (lvl - 1))]

\* mutant of _anti_loop_penalty: the window is the last 80 actions
_anti_loop_penalty_fenetre_80(e, action) ==
    LET window == Tail_n(e.action_history, 80)
        Same(a) == a = action
        repeat == Count(window, Same)
    IN IF repeat >= 12
       THEN [e |-> [e EXCEPT !.cooldowns[action] = e.tick + 5], val |-> 3000]
       ELSE [e |-> e, val |-> 200 * repeat]

\* the engine after the call (the cooldown it may set) and the penalty returned
_anti_loop_penalty(e, action) ==
    LET window == Tail_n(e.action_history, 30)
        Same(a) == a = action
        repeat == Count(window, Same)
    IN IF repeat >= 12
       THEN [e |-> [e EXCEPT !.cooldowns[action] = e.tick + 5], val |-> 3000]
       ELSE [e |-> e, val |-> 200 * repeat]

_detect_stagnation(e) ==
    LET window == Tail_n(e.memoire.court_terme, 30)
        Rare(ev) == ev.rare_event # "none"
        any_event == Count(window, Rare) > 0
        novelty_gain == e.etat_monde.nouveaute - 5000
        skill_progress == Cardinality({a \in ActionSet : e.competences[a].niveau > 1})
    IN IF Len(window) < 12 THEN FALSE
       ELSE (~any_event) /\ novelty_gain < 200 /\ skill_progress <= 1

_context_key(e) ==
    IF e.etat_monde.danger > 6000 THEN "danger_high"
    ELSE IF e.etat_monde.opportunites > 6000 THEN "opportunity_high"
    ELSE "neutral"

\* _context_bias, for the entry d of the context (None when there is none)
_context_bias_de(d) ==
    IF d = None THEN 0
    ELSE Mul(The(d).score, 500) + Min(800, The(d).freq * 100)
         + Min(600, The(d).gravite * 100)

_context_bias(e, action) ==
    _context_bias_de(e.memoire.long_terme[action].contexts[_context_key(e)])

RECURSIVE SumFit(_, _)
SumFit(actifs, action) ==
    IF actifs = << >> THEN 0
    ELSE Mul(ObjectifPriority(Head(actifs)), ObjectifFit(Head(actifs), action))
         + SumFit(Tail(actifs), action)

\* the engine after the call (cooldown, random stream) and the score returned
_score_action(e, action, actifs) ==
    LET p == action_profiles[action]
        mem == e.memoire.long_terme[action]
        mods == _skill_modifiers(e, action)
        reward == Mul(p.knowledge_gain + p.stability_gain, mods.reward_mult)
                  + Mul(300, e.etat_monde.opportunites)
        cost == Mul(p.energy_cost, mods.energy_mult) + p.clarity_cost
                + Mul(p.fatigue_gain, 6000)
        recency == Min(UN, ((e.tick - e.last_action_tick[action]) * UN) \div 50)
        risk == Mul(p.base_risk, mods.risk_mult) + Mul(e.etat.stress, 2500)
                - Mul(e.etat.stability, 1500) + Mul(e.etat_monde.danger, 1500)
        loop == _anti_loop_penalty(e, action)
        x == RngNext(e._rng)
        score == reward - cost
                 + SumFit(actifs, action)
                 + Mul(6000, mem.ema_reward) - Mul(6000, mem.ema_cost)
                 - 8000 * mem.recent_fail_streak
                 + 2500 * mem.recent_success_streak
                 + Mul(Mul(2000, recency), e.meta.diversite)
                 - Mul(Mul(Mul(UN - e.etat.risk_tolerance, 6000), risk), e.meta.audace)
                 - loop.val
                 + _context_bias(e, action)
                 + RngUniform(x, -500, 500)
    IN [e |-> [loop.e EXCEPT !._rng = x], val |-> score]

\* {a: self._score_action(a, actifs) for a in cands}: the engine after the
\* calls and the scores, in the order of cands
RECURSIVE ScoreAll(_, _, _)
ScoreAll(e, cands, actifs) ==
    IF cands = << >> THEN [e |-> e, scores |-> << >>]
    ELSE LET Joined(val, rest) == [e |-> rest.e, scores |-> << val >> \o rest.scores]
             Then(one) == Joined(one.val, ScoreAll(one.e, Tail(cands), actifs))
         IN Then(_score_action(e, Head(cands), actifs))

\* max(scores, key=scores.get): the first candidate of the highest score
ArgMax(cands, scores) ==
    LET best == CHOOSE i \in 1..Len(cands) :
                    /\ \A j \in 1..Len(cands) : scores[j] <= scores[i]
                    /\ \A j \in 1..(i - 1) : scores[j] < scores[i]
    IN cands[best]

\* the engine after the call and the action returned
choisir_action(e) ==
    LET Chosen(intention, cands, sc, action) ==
            [e |-> [sc.e EXCEPT !.journal_debug =
                        Append(@, [tick |-> e.tick, intention |-> intention,
                                   cands |-> cands, scores |-> sc.scores,
                                   chosen |-> action])],
             val |-> action]
        Scored(intention, cands, sc) == Chosen(intention, cands, sc, ArgMax(cands, sc.scores))
        Gated(e1, actifs, cands) == Scored(e1.intention_active, cands, ScoreAll(e1, cands, actifs))
        Intended(e1, actifs) == Gated(e1, actifs, _gated_actions(e1))
        Active(actifs) == Intended(_choose_intention(e, actifs), actifs)
    IN Active(_active_objectifs(e))

-----------------------------------------------------------------------------
(* Ideas, rare events, execution *)

IdeeKey(e, i) == i.priorite - 20 * (e.tick - i.recence_tick)

\* sorted(..., key, reverse=True): stable, by decreasing key
RECURSIVE InsertDesc(_, _, _)
InsertDesc(e, x, sorted) ==
    IF sorted = << >> THEN << x >>
    ELSE IF IdeeKey(e, Head(sorted)) >= IdeeKey(e, x)
         THEN << Head(sorted) >> \o InsertDesc(e, x, Tail(sorted))
         ELSE << x >> \o sorted

RECURSIVE SortIdees(_, _, _)
SortIdees(e, todo, sorted) ==
    IF todo = << >> THEN sorted
    ELSE SortIdees(e, Tail(todo), InsertDesc(e, Head(todo), sorted))

_update_idees(e, rare_event, action) ==
    LET b0 == e.idees_backlog
        b1 == IF rare_event \in {"discovery", "success_major"}
              THEN Append(b0, Idee("tester approche ambitieuse", << "evenement", rare_event >>,
                                   4500, 5500, 8000, e.tick))
              ELSE IF rare_event \in {"near_failure", "stress_spike"}
              THEN Append(b0, Idee(<< "eviter", action, "temporairement" >>, "tension elevee",
                                   2000, 2500, 9000, e.tick))
              ELSE b0
        b2 == IF e.etat.curiosity > 7800
              THEN Append(b1, Idee("exploration legere ciblee", "curiosite haute",
                                   3500, 4000, 7000, e.tick))
              ELSE b1
        b3 == IF _detect_stagnation(e)
              THEN Append(b2, Idee("changer d'approche", "stagnation detectee",
                                   3000, 3000, 9500, e.tick))
              ELSE b2
    IN [e EXCEPT !.idees_backlog = Head_n(SortIdees(e, b3, << >>), 25)]

RareEvents == << "discovery", "near_failure", "success_major", "stress_spike",
                 "opportunity_exceptionnelle" >>

\* the engine after the call and the event returned
_roll_rare_event(e, action) ==
    LET x1 == RngNext(e._rng)
        x2 == RngNext(x1)
        x3 == RngNext(x2)
        event == RngChoice(x2, RareEvents)
        g == RngUniform(x3, 4500, UN)
        s == e.etat
        s2 == CASE event = "discovery" -> [s EXCEPT !.curiosity = @ + Mul(1200, g)]
                [] event = "near_failure" -> [s EXCEPT !.stress = @ + Mul(1400, g),
                                                       !.stability = @ - Mul(600, g)]
                [] event = "success_major" -> [s EXCEPT !.stress = @ - Mul(800, g),
                                                        !.risk_tolerance = @ + Mul(500, g)]
                [] event = "stress_spike" -> [s EXCEPT !.stress = @ + Mul(1800, g)]
                [] OTHER -> s
        w == e.etat_monde
        w2 == IF event = "opportunity_exceptionnelle"
              THEN [w EXCEPT !.opportunites = @ + Mul(1200, g)] ELSE w
    IN IF RngRandom(x1) > Min(2500, 300 + Mul(e.etat_monde.bruit_instabilite, 800))
       THEN [e |-> [e EXCEPT !._rng = x1], val |-> "none"]
       ELSE [e |-> [e EXCEPT !._rng = x3,
                             !.memoire.souvenirs_marquants =
                                 Append(@, SouvenirMarquant(event, g, action, e.tick, s2)),
                             !.etat = EtatInterne_borner(s2),
                             !.etat_monde = EtatMonde_borner(w2)],
             val |-> event]

\* the engine after the call and the result returned
_executer_action(e, action) ==
    LET p == action_profiles[action]
        mods == _skill_modifiers(e, action)
        risk == Borne(Mul(p.base_risk, mods.risk_mult) + Mul(e.etat.stress, 2000)
                      - Mul(e.etat.stability, 1000) + Mul(e.etat_monde.danger, 2000))
        x == RngNext(e._rng)
        s == e.etat
        Effect(success) ==
            [s EXCEPT
                !.energy = @ - Mul(p.energy_cost, mods.energy_mult),
                !.clarity = @ - p.clarity_cost,
                !.stability = @ + (IF success THEN p.stability_gain
                                   ELSE Mul(p.stability_gain, 4000)),
                !.curiosity = @ + Mul(p.knowledge_gain, 500) + Mul(e.etat_monde.nouveaute, 200),
                !.fatigue = @ + p.fatigue_gain,
                !.stress = IF success THEN @ - 200
                           ELSE @ + p.stress_on_fail + Mul(e.etat_monde.danger, 500)]
        Result(success, ev) ==
            [e |-> _update_idees(ev.e, ev.val, action),
             val |-> [success |-> success,
                      observed_reward |-> IF success THEN p.knowledge_gain + p.stability_gain
                                          ELSE Mul(p.knowledge_gain + p.stability_gain, 2500),
                      observed_cost |-> Mul(p.energy_cost, mods.energy_mult) + p.clarity_cost
                                        + Mul(p.fatigue_gain, 6000),
                      risk_effective |-> risk,
                      rare_event |-> ev.val]]
        Outcome_of(success) ==
            Result(success,
                   _roll_rare_event(
                       _apply_action_world_effect(
                           [e EXCEPT !._rng = x, !.etat = EtatInterne_borner(Effect(success))],
                           action, success),
                       action))
    IN Outcome_of(RngRandom(x) > risk)

-----------------------------------------------------------------------------
(* Competence and long-term memory *)

\* mutant of _update_competence: the experience above the threshold is dropped
_update_competence_sans_report(e, action, success) ==
    LET s == e.competences[action]
        xp == s.experience + (IF success THEN 3000 ELSE 1200)
        up == xp >= s.seuil
        s2 == IF up THEN [niveau |-> s.niveau + 1, experience |-> 0,
                          seuil |-> Mul(s.seuil, 12500)]
              ELSE [s EXCEPT !.experience = xp]
    IN [e EXCEPT !.competences[action] = s2,
                 !.idees_backlog =
                    IF up THEN Append(@, Idee(<< "capitaliser", action >>, "montee de competence",
                                              3000, 3500, 6500, e.tick))
                    ELSE @]

_update_competence(e, action, success) ==
    LET s == e.competences[action]
        xp == s.experience + (IF success THEN 3000 ELSE 1200)
        up == xp >= s.seuil
        s2 == IF up THEN [niveau |-> s.niveau + 1, experience |-> xp - s.seuil,
                          seuil |-> Mul(s.seuil, 12500)]
              ELSE [s EXCEPT !.experience = xp]
    IN [e EXCEPT !.competences[action] = s2,
                 !.idees_backlog =
                    IF up THEN Append(@, Idee(<< "capitaliser", action >>, "montee de competence",
                                              3000, 3500, 6500, e.tick))
                    ELSE @]

\* mutant of MemoireAction_outcome: a success leaves the fail streak as it was
MemoireAction_outcome_sans_reset(mem, success, stress, t) ==
    IF success
    THEN [mem EXCEPT !.n_total = @ + 1, !.last_tick = t, !.n_success = @ + 1,
                     !.recent_success_streak = @ + 1]
    ELSE [mem EXCEPT !.n_total = @ + 1, !.last_tick = t, !.n_fail = @ + 1,
                     !.recent_fail_streak = @ + 1,
                     !.recent_success_streak = 0,
                     !.avoid_until_tick = IF stress > 7500 THEN t + 40 ELSE @]

\* the counters of the executed action after its outcome at tick t
MemoireAction_outcome(mem, success, stress, t) ==
    IF success
    THEN [mem EXCEPT !.n_total = @ + 1, !.last_tick = t, !.n_success = @ + 1,
                     !.recent_success_streak = @ + 1,
                     !.recent_fail_streak = 0]
    ELSE [mem EXCEPT !.n_total = @ + 1, !.last_tick = t, !.n_fail = @ + 1,
                     !.recent_fail_streak = @ + 1,
                     !.recent_success_streak = 0,
                     !.avoid_until_tick = IF stress > 7500 THEN t + 40 ELSE @]

_update_memoire_long_terme(e, action, result) ==
    LET mem == e.memoire.long_terme[action]
        success == result.success
        m1 == MemoireAction_outcome(mem, success, e.etat.stress, e.tick)
        r == result.observed_reward
        c == result.observed_cost
        ctx == _context_key(e)
        d0 == IF m1.contexts[ctx] = None THEN [score |-> 0, freq |-> 0, gravite |-> 0]
              ELSE The(m1.contexts[ctx])
        d1 == [score |-> Mul(8000, d0.score) + Mul(2000, r - c),
               freq |-> d0.freq + 1,
               gravite |-> IF result.rare_event # "none" THEN d0.gravite + 1 ELSE d0.gravite]
        m2 == [m1 EXCEPT !.ema_reward = Mul(UN - EMA_ALPHA, @) + Mul(EMA_ALPHA, r),
                         !.ema_cost = Mul(UN - EMA_ALPHA, @) + Mul(EMA_ALPHA, c),
                         !.contexts[ctx] = Some(d1)]
    IN [e EXCEPT !.memoire.long_terme[action] = m2]

-----------------------------------------------------------------------------
(* Meta-learning, consolidation, dashboard *)

\* mutant of _meta_learning: the audacity has no floor
_meta_learning_sans_plancher(e) ==
    LET w == Tail_n(e.memoire.court_terme, 20)
        n == Len(w)
        Failed(ev) == ~ev.success
        Rest(ev) == ev.action = "rest"
        fails == Count(w, Failed)
        rests == Count(w, Rest)
        sum_reward == SumSeq([i \in 1..n |-> w[i].reward])
        \* fail_rate > 0.45, fail_rate < 0.25, avg_reward < 0.05, rest_ratio > 0.40
        audace == IF fails * 100 > 45 * n THEN e.meta.audace - 200
                  ELSE IF fails * 100 < 25 * n THEN Min(11000, e.meta.audace + 100)
                  ELSE e.meta.audace
        curiosity == IF sum_reward < 500 * n THEN e.etat.curiosity + 100
                     ELSE e.etat.curiosity
        diversite == IF rests * 100 > 40 * n THEN Min(12000, e.meta.diversite + 300)
                     ELSE Max(9000, e.meta.diversite - 100)
    IN IF n = 0 THEN e
       ELSE [e EXCEPT !.meta = [audace |-> audace, diversite |-> diversite],
                      !.etat = EtatInterne_borner([e.etat EXCEPT !.curiosity = curiosity])]

_meta_learning(e) ==
    LET w == Tail_n(e.memoire.court_terme, 20)
        n == Len(w)
        Failed(ev) == ~ev.success
        Rest(ev) == ev.action = "rest"
        fails == Count(w, Failed)
        rests == Count(w, Rest)
        sum_reward == SumSeq([i \in 1..n |-> w[i].reward])
        \* fail_rate > 0.45, fail_rate < 0.25, avg_reward < 0.05, rest_ratio > 0.40
        audace == IF fails * 100 > 45 * n THEN Max(8500, e.meta.audace - 200)
                  ELSE IF fails * 100 < 25 * n THEN Min(11000, e.meta.audace + 100)
                  ELSE e.meta.audace
        curiosity == IF sum_reward < 500 * n THEN e.etat.curiosity + 100
                     ELSE e.etat.curiosity
        diversite == IF rests * 100 > 40 * n THEN Min(12000, e.meta.diversite + 300)
                     ELSE Max(9000, e.meta.diversite - 100)
    IN IF n = 0 THEN e
       ELSE [e EXCEPT !.meta = [audace |-> audace, diversite |-> diversite],
                      !.etat = EtatInterne_borner([e.etat EXCEPT !.curiosity = curiosity])]

\* max(counts, key=counts.get) / min(counts, key=counts.get) over the catalog order
FirstMax(counts) ==
    Actions[CHOOSE i \in 1..Len(Actions) :
                /\ \A j \in 1..Len(Actions) : counts[Actions[j]] <= counts[Actions[i]]
                /\ \A j \in 1..(i - 1) : counts[Actions[j]] < counts[Actions[i]]]

FirstMin(counts) ==
    Actions[CHOOSE i \in 1..Len(Actions) :
                /\ \A j \in 1..Len(Actions) : counts[Actions[j]] >= counts[Actions[i]]
                /\ \A j \in 1..(i - 1) : counts[Actions[j]] > counts[Actions[i]]]

\* mutant of Oubli: the severity threshold is 0.50
Oubli_seuil_bas(souvenirs) ==
    LET Grave(sv) == sv.gravite >= 5000
    IN SelectSeq(souvenirs, Grave)

\* [s for s in souvenirs_marquants if s.gravite >= 0.55]
Oubli(souvenirs) ==
    LET Grave(sv) == sv.gravite >= 5500
    IN SelectSeq(souvenirs, Grave)

_consolidation_periodique(e) ==
    LET w == Tail_n(e.action_history, 80)
        counts == [a \in ActionSet |-> Cardinality({i \in 1..Len(w) : w[i] = a})]
        dom == FirstMax(counts)
        low == FirstMin(counts)
        s == e.etat
        s1 == IF dom \in {"explore", "challenge"}
              THEN [s EXCEPT !.risk_tolerance = @ + 150, !.curiosity = @ + 100] ELSE s
        s2 == IF dom \in {"organize", "reflect", "rest"}
              THEN [s1 EXCEPT !.stability = @ + 120] ELSE s1
        s3 == IF low \in {"explore", "challenge"}
              THEN [s2 EXCEPT !.curiosity = @ - 80] ELSE s2
    IN IF e.tick % CONSOLIDATION_EVERY_TICKS # 0 THEN e
       ELSE IF w = << >> THEN e
       ELSE [e EXCEPT !.memoire.souvenirs_marquants = Oubli(@),
                      !.etat = EtatInterne_borner(s3)]

\* round(num / den, 3) of a quotient of thousandths, half to even
RoundDiv(num, den) ==
    LET q == num \div den
        r == num % den
    IN IF 2 * r < den THEN q
       ELSE IF 2 * r > den THEN q + 1
       ELSE IF q % 2 = 0 THEN q ELSE q + 1

\* sorted(items, key=lambda x: x[1], reverse=True): stable, by decreasing count
RECURSIVE InsertPair(_, _)
InsertPair(x, sorted) ==
    IF sorted = << >> THEN << x >>
    ELSE IF Head(sorted)[2] >= x[2] THEN << Head(sorted) >> \o InsertPair(x, Tail(sorted))
    ELSE << x >> \o sorted

RECURSIVE SortPairs(_, _)
SortPairs(todo, sorted) ==
    IF todo = << >> THEN sorted
    ELSE SortPairs(Tail(todo), InsertPair(Head(todo), sorted))

\* the (name, count) pairs of the names that occur in occ, by decreasing count;
\* the names of equal count are taken in the order of names (Python iterates
\* a set of strings in an order the program does not fix)
TopCounts(names, occ) ==
    LET Occurs(a) == \E i \in 1..Len(occ) : occ[i] = a
        present == SelectSeq(names, Occurs)
        pairs == [i \in 1..Len(present) |->
                    << present[i], Cardinality({j \in 1..Len(occ) : occ[j] = present[i]}) >>]
    IN Head_n(SortPairs(pairs, << >>), 3)

_compute_dashboard(e) ==
    LET w == Tail_n(e.memoire.court_terme, 60)
        n == Len(w)
        Failed(ev) == ~ev.success
        Rare(ev) == ev.rare_event # "none"
        actions == [i \in 1..n |-> w[i].action]
        rares == SelectSeq(w, Rare)
        events == [i \in 1..Len(rares) |-> rares[i].rare_event]
    IN IF n = 0
       THEN [fail_rate |-> 0, action_diversity |-> 0, avg_stress |-> e.etat.stress,
             avg_energy |-> e.etat.energy, top_actions |-> << >>, top_events |-> << >>]
       ELSE [fail_rate |-> 10 * RoundDiv(1000 * Count(w, Failed), n),
             action_diversity |-> Cardinality({actions[i] : i \in 1..n}),
             avg_stress |-> 10 * RoundDiv(SumSeq([i \in 1..n |-> w[i].stress]), 10 * n),
             avg_energy |-> 10 * RoundDiv(SumSeq([i \in 1..n |-> w[i].energy]), 10 * n),
             top_actions |-> TopCounts(Actions, actions),
             top_events |-> TopCounts(RareEvents, events)]

\* mutant of DayIndex: a day of 1500 minutes
DayIndex_1500(minutes) == minutes \div 1500

\* int(self.sim_minutes // 1440)
DayIndex(minutes) == minutes \div 1440

_day_summary_if_needed(e) ==
    LET day == DayIndex(e.sim_minutes)
        summary == [day_index |-> day,
                    intentions |-> IF e.intention_active # None
                                   THEN The(e.intention_active).nom ELSE "none",
                    skills |-> [a \in ActionSet |-> e.competences[a].niveau],
                    dashboard |-> _compute_dashboard(e)]
    IN IF day <= e._last_day_index THEN e
       ELSE [e EXCEPT !._last_day_index = day,
                      !.journal_evolutif = Append(@, summary),
                      !.dashboard_history = Append(@, summary)]

_human_log(e, action, success, rare_event) ==
    LET cap == IF e.intention_active # None THEN The(e.intention_active).nom ELSE "ajustement"
    IN IF rare_event # "none" THEN << "Je poursuis", cap, "via", action, "evenement", rare_event >>
       ELSE << "Je poursuis", cap, "via", action, IF success THEN "succes" ELSE "echec" >>

_state_snapshot(e) ==
    [tick |-> e.tick, phase |-> e.sim_day_phase, etat |-> e.etat, monde |-> e.etat_monde,
     intention |-> e.intention_active, meta |-> e.meta]

-----------------------------------------------------------------------------
(* Snapshots.  A file holds nothing (Absent), text that is not JSON         *)
(* (Corrompu) or the JSON text of a document; json.dumps / json.loads take  *)
(* the document to that text and back.  path.bak is << path, ".bak" >>.     *)

Absent == [kind |-> "absent"]
Corrompu == [kind |-> "text", text |-> "{corrompu"]
\* json.dumps(document)
json_dumps(document) == [kind |-> "json", data |-> document]

default_snapshot_path == "kaguya_snapshot.json"
Paths == {default_snapshot_path, "snap.json"}
Primary(path) == << path, "" >>
Backup(path) == << path, ".bak" >>
Files == {Primary(p) : p \in Paths} \cup {Backup(p) : p \in Paths}

\* json.loads(p.read_text()) returns (the file exists and parses)
json_loads_ok(content) == content.kind = "json"
json_loads(content) == content.data

snapshot_dict(e) ==
    [version |-> SNAPSHOT_VERSION,
     tick |-> e.tick,
     sim_minutes |-> e.sim_minutes,
     etat |-> e.etat,
     monde |-> e.etat_monde,
     meta |-> e.meta,
     competences |-> e.competences,
     memoire |-> [court_terme |-> e.memoire.court_terme,
                  long_terme |-> e.memoire.long_terme,
                  souvenirs_marquants |-> e.memoire.souvenirs_marquants,
                  routines |-> e.memoire.routines],
     intention_active |-> e.intention_active,
     idees_backlog |-> e.idees_backlog,
     router |-> [auto_mode |-> e.model_router.auto_mode,
                 forced_model_key |-> e.model_router.forced_model_key,
                 current_mode |-> e.model_router.current_mode,
                 keep_warm |-> e.model_router.keep_warm]]

\* mutant of save_snapshot_copie: the primary is not copied into the .bak
save_snapshot_sans_copie(f, path) == f

\* if p.exists(): backup.write_text(p.read_text())
save_snapshot_copie(f, path) ==
    IF f[Primary(path)].kind # "absent"
    THEN [f EXCEPT ![Backup(path)] = f[Primary(path)]] ELSE f

\* p.write_text(payload)
save_snapshot_primaire(f, path, payload) == [f EXCEPT ![Primary(path)] = payload]

\* backup.write_text(payload)
save_snapshot_bak(f, path, payload) == [f EXCEPT ![Backup(path)] = payload]

\* the engine (its refusal log) and the files after the call
save_snapshot(e, f, path) ==
    LET perm == Permissions_autorise(e, "snapshot")
        payload == json_dumps(snapshot_dict(e))
        f1 == save_snapshot_copie(f, path)
        f2 == save_snapshot_primaire(f1, path, payload)
        f3 == save_snapshot_bak(f2, path, payload)
    IN IF ~perm.val THEN [e |-> perm.e, fs |-> f]
       ELSE [e |-> e, fs |-> f3]

\* mutant of Readable: the version is not looked at
Readable_sans_version(content) == json_loads_ok(content)

\* json.loads(p.read_text()) succeeds and the version is the expected one
Readable(content) ==
    json_loads_ok(content) /\ json_loads(content).version = SNAPSHOT_VERSION

\* the keys load_snapshot reads with data[...], in the order it reads them
Requis == << "tick", "sim_minutes", "etat", "monde", "meta", "competences", "memoire" >>

\* how many of them are read before one is missing
RECURSIVE Lus(_, _)
Lus(data, n) ==
    IF n < Len(Requis) /\ Requis[n + 1] \in DOMAIN data THEN Lus(data, n + 1) ELSE n

\* the document has every key load_snapshot requires
Complet(data) == Lus(data, 0) = Len(Requis)

\* mutant of Restore: the competences are not restored
Restore_sans_competences(e, data) ==
    [e EXCEPT !.tick = data.tick,
              !.sim_minutes = data.sim_minutes,
              !.sim_day_minutes = data.sim_minutes % 1440,
              !.sim_day_phase = _compute_sim_day_phase(data.sim_minutes % 1440),
              !.etat = data.etat,
              !.etat_monde = data.monde,
              !.meta = data.meta,
              !.memoire = [court_terme |-> data.memoire.court_terme,
                           long_terme |-> data.memoire.long_terme,
                           souvenirs_marquants |-> data.memoire.souvenirs_marquants,
                           routines |-> data.memoire.routines],
              !.idees_backlog = data.idees_backlog,
              !.intention_active = data.intention_active,
              !.model_router = [@ EXCEPT !.auto_mode = data.router.auto_mode,
                                         !.forced_model_key = data.router.forced_model_key,
                                         !.current_mode = data.router.current_mode,
                                         !.keep_warm = data.router.keep_warm]]

\* the fields load_snapshot assigns from the document data, one after the
\* other, until a key is missing; the keys read with data.get have a default
Restore(e, data) ==
    LET n == Lus(data, 0)
        router == IF "router" \in DOMAIN data THEN data.router
                  ELSE [auto_mode |-> TRUE, forced_model_key |-> None,
                        current_mode |-> "realtime", keep_warm |-> TRUE]
    IN [e EXCEPT !.tick = IF n >= 1 THEN data.tick ELSE @,
                 !.sim_minutes = IF n >= 2 THEN data.sim_minutes ELSE @,
                 !.sim_day_minutes = IF n >= 2 THEN data.sim_minutes % 1440 ELSE @,
                 !.sim_day_phase = IF n >= 2
                                   THEN _compute_sim_day_phase(data.sim_minutes % 1440)
                                   ELSE @,
                 !.etat = IF n >= 3 THEN data.etat ELSE @,
                 !.etat_monde = IF n >= 4 THEN data.monde ELSE @,
                 !.meta = IF n >= 5 THEN data.meta ELSE @,
                 !.competences = IF n >= 6 THEN data.competences ELSE @,
                 !.memoire = IF n >= 7
                             THEN [court_terme |-> data.memoire.court_terme,
                                   long_terme |-> data.memoire.long_terme,
                                   souvenirs_marquants |-> data.memoire.souvenirs_marquants,
                                   routines |-> data.memoire.routines]
                             ELSE @,
                 !.idees_backlog = IF n < 7 THEN @
                                   ELSE IF "idees_backlog" \in DOMAIN data
                                   THEN data.idees_backlog ELSE << >>,
                 !.intention_active = IF n < 7 THEN @
                                      ELSE IF "intention_active" \in DOMAIN data
                                      THEN data.intention_active ELSE None,
                 !.model_router = IF n < 7 THEN @
                                  ELSE [@ EXCEPT !.auto_mode = router.auto_mode,
                                                 !.forced_model_key = router.forced_model_key,
                                                 !.current_mode = router.current_mode,
                                                 !.keep_warm = router.keep_warm]]

\* load_snapshot once the document data is chosen: the engine, the boolean
\* returned and, when a key is missing, the exception that leaves the call
\* in place of the return
load_snapshot_document(e, data) ==
    [e |-> Restore(e, data), val |-> Complet(data),
     leve |-> IF Complet(data) THEN None ELSE Some("KeyError")]

\* load_snapshot when no document can be read
load_snapshot_echec(e) == [e |-> e, val |-> FALSE, leve |-> None]

\* mutant of load_snapshot: the backup is never read
load_snapshot_sans_repli(e, f, path) ==
    LET prim == f[Primary(path)]
    IN IF Readable(prim) THEN load_snapshot_document(e, json_loads(prim))
       ELSE load_snapshot_echec(e)

\* the engine after the call and the boolean returned
load_snapshot(e, f, path) ==
    LET prim == f[Primary(path)]
        bak == f[Backup(path)]
    IN IF Readable(prim) THEN load_snapshot_document(e, json_loads(prim))
       ELSE IF bak.kind = "absent" THEN load_snapshot_echec(e)
       ELSE IF Readable(bak) THEN load_snapshot_document(e, json_loads(bak))
       ELSE load_snapshot_echec(e)

-----------------------------------------------------------------------------
(* The life-cycle step *)

\* boucle_de_vie from its consolidation to its return: e8 is the engine before
\* _consolidation_periodique and e9 the engine after it
\* mutant of boucle_de_vie_evenement: a major success does not clear the
\* intention
boucle_de_vie_evenement_sans_succes(e10, result) ==
    IF result.rare_event \in {"near_failure", "stress_spike"}
    THEN [e10 EXCEPT !.intention_active = None] ELSE e10

\* boucle_de_vie: the intention cleared by the rare event of the tick
boucle_de_vie_evenement(e10, result) ==
    IF result.rare_event \in {"near_failure", "stress_spike", "success_major"}
    THEN [e10 EXCEPT !.intention_active = None] ELSE e10

boucle_de_vie_fin(before, action, result, e8, e9, f) ==
    LET Logged(sv) ==
            [e |-> [sv.e EXCEPT
                      !.journal_debug = Append(@, [tick |-> sv.e.tick, before |-> before,
                                                   after |-> _state_snapshot(sv.e),
                                                   result |-> result]),
                      !.trace = Some([tick |-> sv.e.tick,
                                 avant_consolidation |->
                                     [etat |-> e8.etat,
                                      souvenirs_marquants |-> e8.memoire.souvenirs_marquants],
                                 apres_consolidation |->
                                     [etat |-> e9.etat,
                                      souvenirs_marquants |-> e9.memoire.souvenirs_marquants]])],
             fs |-> sv.fs,
             val |-> Fmt(_human_log(sv.e, action, result.success, result.rare_event))]
        Autosave(e11) ==
            Logged(IF e11.tick % AUTOSAVE_EVERY_TICKS = 0
                   THEN save_snapshot(e11, f, default_snapshot_path)
                   ELSE [e |-> e11, fs |-> f])
        Summarised(e10) == Autosave(boucle_de_vie_evenement(e10, result))
    IN Summarised(_day_summary_if_needed(e9))

\* boucle_de_vie from _meta_learning on: e7 is the engine after the event was
\* recorded
boucle_de_vie_bilan(before, action, result, e7, f) ==
    LET e8 == _meta_learning(e7)
    IN boucle_de_vie_fin(before, action, result, e8, _consolidation_periodique(e8), f)

\* mutant of boucle_de_vie_memoire: the routine of the phase is not counted
boucle_de_vie_memoire_sans_routine(before, action, ex, f) ==
    LET result == ex.val
        e4 == [ex.e EXCEPT !.last_action_tick[action] = ex.e.tick,
                           !.action_history = Append(@, action)]
        e6 == _update_memoire_long_terme(_update_competence(e4, action, result.success),
                                         action, result)
        evt == [tick |-> e6.tick, action |-> action, success |-> result.success,
                reward |-> result.observed_reward, cost |-> result.observed_cost,
                rare_event |-> result.rare_event, stress |-> e6.etat.stress,
                energy |-> e6.etat.energy]
    IN boucle_de_vie_bilan(before, action, result,
                           [e6 EXCEPT !.memoire = Memoire_enregistrer_evenement(@, evt)], f)

\* boucle_de_vie after _executer_action returned ex: the bookkeeping of the
\* action and the event recorded in the short-term memory
boucle_de_vie_memoire(before, action, ex, f) ==
    LET result == ex.val
        e4 == [ex.e EXCEPT !.last_action_tick[action] = ex.e.tick,
                           !.action_history = Append(@, action),
                           !.memoire.routines[action][ex.e.sim_day_phase] = @ + 1]
        e6 == _update_memoire_long_terme(_update_competence(e4, action, result.success),
                                         action, result)
        evt == [tick |-> e6.tick, action |-> action, success |-> result.success,
                reward |-> result.observed_reward, cost |-> result.observed_cost,
                rare_event |-> result.rare_event, stress |-> e6.etat.stress,
                energy |-> e6.etat.energy]
    IN boucle_de_vie_bilan(before, action, result,
                           [e6 EXCEPT !.memoire = Memoire_enregistrer_evenement(@, evt)], f)

\* boucle_de_vie after choisir_action returned ch
boucle_de_vie_action(before, ch, f) ==
    boucle_de_vie_memoire(before, ch.val, _executer_action(ch.e, ch.val), f)

\* boucle_de_vie after _passive_recovery: e3 is the engine at decision time
boucle_de_vie_decision(e3, f) ==
    boucle_de_vie_action(_state_snapshot(e3), choisir_action(e3), f)

\* boucle_de_vie once the call is admitted
boucle_de_vie_cycle(e, h, f) ==
    boucle_de_vie_decision(
        _passive_recovery(_evolve_world(
            _tick_time_update([e EXCEPT !.journal_debug = << >>], h))), f)

\* the engine and the files after the call, and the text returned
boucle_de_vie(e, h, f) ==
    LET perm == Permissions_autorise(e, "simulate")
    IN IF e.is_paused THEN [e |-> e, fs |-> f, val |-> Str("Boucle en pause.")]
       ELSE IF ContrainteExecutionLocale_verifier_raises(e.contrainte_locale)
       THEN [e |-> e, fs |-> f, val |-> Leve("RuntimeError")]
       ELSE IF ~perm.val
       THEN [e |-> perm.e, fs |-> f, val |-> Str("Action refusee par permissions.")]
       ELSE boucle_de_vie_cycle(perm.e, h, f)

-----------------------------------------------------------------------------
(* The text-generation layer (src/kaguya/llm.py)                            *)
(*                                                                          *)
(* A prompt is the sequence of its words.  The vocabulary is chosen so that *)
(* no word holds a keyword of MockLLMEngine inside another word: a keyword  *)
(* is in the lower-cased prompt exactly when it is one of its lower-cased   *)
(* words.  An engine object holds no state of its own, so loaded_engines is *)
(* the set of its keys: the key "lmstudio-active" is bound to an            *)
(* LMStudioEngine, any other key to a MockLLMEngine of that name.  Token    *)
(* counts are left out of the metadata.                                     *)

\* str.lower() on the words of the vocabulary
Lower(w) ==
    CASE w = "PAUSE" -> "pause"
      [] w = "Etat" -> "etat"
      [] w = "MODEL" -> "model"
      [] w = "QWEN2.5-14B" -> "qwen2.5-14b"
      [] OTHER -> w

\* keyword in prompt.lower()
Contient(mot, prompt) == \E i \in 1..Len(prompt) : Lower(prompt[i]) = mot

\* ModelRegistry.default(): the keys of the registry
Registre == {"lmstudio-active", "qwen2.5-14b", "qwen3.5-35b-a3b"}

\* ModelRouter(registry)
ModelRouter ==
    [auto_mode |-> TRUE, forced_model_key |-> None, current_mode |-> "realtime",
     keep_warm |-> TRUE, loaded_engines |-> {}, active_model_key |-> None,
     latency_history |-> << >>, lmstudio_available |-> TRUE,
     lmstudio_probe_interval_s |-> 2, next_lmstudio_probe_at |-> 0]

LLMResult(text, commands, metadata) ==
    [text |-> text, commands |-> commands, meta |-> metadata]

\* a command object: its name and, when it has one, its value
Commande(cmd) == [cmd |-> cmd]
CommandeValeur(cmd, value) == [cmd |-> cmd, value |-> value]

\* the latency measured on an answer of a MockLLMEngine, in milliseconds
LatenceMock == 0

\* MockLLMEngine(model_name).generate
MockLLMEngine_generate(model_name, prompt, mode) ==
    LLMResult(IF mode = "realtime" THEN "Je propose une action prudente"
              ELSE "Je propose un plan structure",
              IF Contient("reprendre", prompt) THEN << Commande("RESUME") >>
              ELSE IF Contient("pause", prompt) THEN << Commande("PAUSE") >>
              ELSE IF Contient("intention", prompt)
              THEN << CommandeValeur("SET_INTENTION", "stabiliser") >>
              ELSE IF Contient("etat", prompt) THEN << Commande("GET_STATE") >>
              ELSE << Commande("PROPOSE") >>,
              [latency_ms |-> LatenceMock, model |-> Some(model_name), error |-> None])

\* what the LM Studio server on 127.0.0.1:1234 does with a request: it is not
\* reachable on any of the three paths, it answers JSON of another shape, or
\* it answers a completion whose text is empty, plain, or speaks of "etat"
Reponses == {"injoignable", "malformee", "vide", "texte", "etat"}

\* the latency measured on an answer of LM Studio, in milliseconds
LatenceLMStudio == 12

\* LMStudioEngine.generate: the result, or the exception that leaves it
LMStudioEngine_generate(prompt, mode, lm) ==
    IF lm = "injoignable" THEN Leve("RuntimeError")
    ELSE IF lm = "malformee" THEN Leve("AttributeError")
    ELSE LLMResult(IF lm = "vide" THEN "Reponse vide du modele." ELSE lm,
                   IF lm = "etat" THEN << Commande("GET_STATE") >>
                   ELSE << Commande("PROPOSE") >>,
                   [latency_ms |-> LatenceLMStudio, model |-> Some("lmstudio-active"),
                    error |-> None])

\* the generate of the engine loaded under a key
Engine_generate(key, prompt, mode, lm) ==
    IF key = "lmstudio-active" THEN LMStudioEngine_generate(prompt, mode, lm)
    ELSE MockLLMEngine_generate(key, prompt, mode)

ModelRouter_set_mode(r, mode) == [r EXCEPT !.current_mode = mode]

ModelRouter_set_auto(r, enabled) ==
    [r EXCEPT !.auto_mode = enabled,
              !.forced_model_key = IF enabled THEN None ELSE @]

\* ModelRouter.force_model: the router after the call and the answer
\* mutant of ModelRouter_force_model: the key is not looked up in the registry
ModelRouter_force_model_sans_registre(r, key) ==
    [r |-> [r EXCEPT !.auto_mode = FALSE, !.forced_model_key = Some(key)],
     val |-> TRUE]

ModelRouter_force_model(r, key) ==
    IF key \notin Registre THEN [r |-> r, val |-> FALSE]
    ELSE [r |-> [r EXCEPT !.auto_mode = FALSE, !.forced_model_key = Some(key)],
          val |-> TRUE]

\* mutant of _probe_lmstudio_recovery: the probe does not wait for its date
_probe_lmstudio_recovery_sans_delai(r, now, sonde) ==
    [r |-> [r EXCEPT !.next_lmstudio_probe_at = now + r.lmstudio_probe_interval_s,
                     !.loaded_engines = @ \cup {"lmstudio-active"},
                     !.lmstudio_available = IF sonde THEN TRUE ELSE @],
     val |-> sonde]

\* ModelRouter._probe_lmstudio_recovery at time now, sonde being the answer
\* of probe_ready
_probe_lmstudio_recovery(r, now, sonde) ==
    IF now < r.next_lmstudio_probe_at THEN [r |-> r, val |-> FALSE]
    ELSE [r |-> [r EXCEPT !.next_lmstudio_probe_at = now + r.lmstudio_probe_interval_s,
                          !.loaded_engines = @ \cup {"lmstudio-active"},
                          !.lmstudio_available = IF sonde THEN TRUE ELSE @],
          val |-> sonde]

\* mutant of choose_model_key: the local model does not depend on the mode
choose_model_key_sans_mode(r, mode, now, sonde) ==
    IF ~r.auto_mode /\ r.forced_model_key # None
    THEN [r |-> r, val |-> The(r.forced_model_key)]
    ELSE IF r.lmstudio_available THEN [r |-> r, val |-> "lmstudio-active"]
    ELSE LET Probed(p) ==
                 IF p.val THEN [r |-> p.r, val |-> "lmstudio-active"]
                 ELSE [r |-> p.r, val |-> "qwen2.5-14b"]
         IN Probed(_probe_lmstudio_recovery(r, now, sonde))

\* ModelRouter.choose_model_key: the router after the call and the key
choose_model_key(r, mode, now, sonde) ==
    IF ~r.auto_mode /\ r.forced_model_key # None
    THEN [r |-> r, val |-> The(r.forced_model_key)]
    ELSE IF r.lmstudio_available THEN [r |-> r, val |-> "lmstudio-active"]
    ELSE LET Probed(p) ==
                 IF p.val THEN [r |-> p.r, val |-> "lmstudio-active"]
                 ELSE [r |-> p.r,
                       val |-> IF mode = "realtime" THEN "qwen2.5-14b"
                               ELSE "qwen3.5-35b-a3b"]
         IN Probed(_probe_lmstudio_recovery(r, now, sonde))

\* ModelRouter._load_engine: the router after the call
_load_engine(r, key) ==
    [r EXCEPT !.loaded_engines = IF r.keep_warm THEN @ \cup {key} ELSE {key},
              !.active_model_key = Some(key)]

_fallback_key == "qwen2.5-14b"

\* an exception left the call
EstLeve(x) == "leve" \in DOMAIN x

\* ModelRouter.generate from the result of an engine on: r is the router once
\* that engine is loaded, appels the engines called and the mode given to each
ModelRouter_generate_fin(r, res, appels) ==
    LET lh == Append(r.latency_history, res.meta.latency_ms)
    IN [r |-> [r EXCEPT !.latency_history = IF Len(lh) > 200 THEN Tail(lh) ELSE lh],
        val |-> res, appels |-> appels]

\* mutant of ModelRouter_generate_secours: the exception of the chosen engine
\* is raised to the caller
ModelRouter_generate_sans_secours(r, target, mode, exc, prompt, now, lm) ==
    [r |-> r, val |-> exc, appels |-> << [key |-> target, mode |-> mode] >>]

\* ModelRouter.generate, its except clause: exc left the engine under target,
\* which was called in the given mode
ModelRouter_generate_secours(r, target, mode, exc, prompt, now, lm) ==
    LET r1 == _load_engine(
                  IF target = "lmstudio-active"
                  THEN [r EXCEPT !.lmstudio_available = FALSE,
                                 !.next_lmstudio_probe_at =
                                     now + r.lmstudio_probe_interval_s]
                  ELSE r, _fallback_key)
        appels == << [key |-> target, mode |-> mode],
                     [key |-> _fallback_key, mode |-> "realtime"] >>
        Recovered(res) ==
            IF EstLeve(res) THEN [r |-> r1, val |-> res, appels |-> appels]
            ELSE ModelRouter_generate_fin(r1,
                     [res EXCEPT !.meta.error =
                          Some([cause |-> "fallback", exception |-> exc.leve])],
                     appels)
    IN Recovered(Engine_generate(_fallback_key, prompt, "realtime", lm))

\* ModelRouter.generate at time now, env being what LM Studio does (lm) and
\* answers to a probe (sonde): the router after the call, the result (or the
\* exception that leaves the call) and the calls made to engines
ModelRouter_generate(r, prompt, mode, now, env) ==
    LET Chosen(ch) ==
            LET r1 == _load_engine(ch.r, ch.val)
                Answered(res) ==
                    IF EstLeve(res)
                    THEN ModelRouter_generate_secours(r1, ch.val, mode, res, prompt,
                                                      now, env.lm)
                    ELSE ModelRouter_generate_fin(r1, res,
                                                  << [key |-> ch.val, mode |-> mode] >>)
            IN Answered(Engine_generate(ch.val, prompt, mode, env.lm))
    IN Chosen(choose_model_key(r, mode, now, env.sonde))

-----------------------------------------------------------------------------
(* The contract between the engine and the text-generation layer *)

\* round(x, 3)
Round3(x) ==
    LET q == x \div 10
        r == x % 10
    IN 10 * (IF r > 5 \/ (r = 5 /\ q % 2 = 1) THEN q + 1 ELSE q)

build_context_packet(e, mode) ==
    [etat_resume |-> [energy |-> Round3(e.etat.energy),
                      stress |-> Round3(e.etat.stress),
                      stability |-> Round3(e.etat.stability),
                      danger |-> Round3(e.etat_monde.danger),
                      phase |-> e.sim_day_phase],
     intention |->
         IF e.intention_active = None
         THEN [nom |-> None, objectif |-> None, ttl |-> None, actions |-> << >>]
         ELSE [nom |-> Some(The(e.intention_active).nom),
               objectif |-> Some(The(e.intention_active).objectif_lie),
               ttl |-> Some(The(e.intention_active).tick_fin - e.tick),
               actions |-> The(e.intention_active).actions_preferees],
     objectifs |-> _active_objectifs(e),
     derniers_evenements |-> Tail_n(e.memoire.court_terme, 8),
     backlog_idees |-> Head_n(e.idees_backlog, 8),
     relation_style |-> "cooperatif-prudent",
     mode |-> IF mode = "realtime" THEN "realtime" ELSE "reflexion"]

allowed == {"GET_STATE", "PROPOSE", "SET_INTENTION", "PAUSE", "RESUME"}

\* str(c.get("cmd", ""))
CmdName(c) == IF "cmd" \in DOMAIN c THEN c.cmd ELSE ""

\* mutant of Validated: a SET_INTENTION is kept without its value
Validated_sans_valeur(c) == CmdName(c) \in allowed

\* the command c is appended to the validated list
Validated(c) ==
    /\ CmdName(c) \in allowed
    /\ ~(CmdName(c) = "SET_INTENTION" /\ "value" \notin DOMAIN c)

_validate_llm_commands(commands) == SelectSeq(commands, Validated)

\* ask_llm once the router has answered g for the packet sent: the engine
\* after the call, the result returned (or the exception that leaves the
\* call), the calls made to engines and the packet they were given
ask_llm_fin(e, packet, g) ==
    IF EstLeve(g.val)
    THEN [e |-> [e EXCEPT !.model_router = g.r], val |-> g.val,
          appels |-> g.appels, packet |-> Some(packet)]
    ELSE LET Returned(result) ==
                 [e |-> [e EXCEPT !.model_router = g.r,
                                  !.llm_last_result = Some(result)],
                  val |-> result, appels |-> g.appels, packet |-> Some(packet)]
         IN Returned([g.val EXCEPT !.commands = _validate_llm_commands(@)])

\* mutant of ask_llm_envoi: a validated SET_INTENTION is applied to the engine
ask_llm_envoi_applique(e, prompt, use_mode, now, env) ==
    LET Applied(a) ==
            IF \E i \in 1..Len(a.val.commands) : a.val.commands[i].cmd = "SET_INTENTION"
            THEN [a EXCEPT !.e.intention_active =
                     Some(IntentionActive("stabiliser", "Stabilize",
                                          << "organize", "reflect", "rest" >>,
                                          e.tick + 5))]
            ELSE a
    IN Applied(ask_llm_fin(e, build_context_packet(e, use_mode),
                   ModelRouter_generate(ModelRouter_set_mode(e.model_router, use_mode),
                                        prompt, use_mode, now, env)))

\* ask_llm once the permission is given and the mode chosen
ask_llm_envoi(e, prompt, use_mode, now, env) ==
    ask_llm_fin(e, build_context_packet(e, use_mode),
        ModelRouter_generate(ModelRouter_set_mode(e.model_router, use_mode),
                             prompt, use_mode, now, env))

\* the modes a caller gives: the two of the router and one it does not know
Modes == {"realtime", "reflexion", "turbo"}

\* CerveauKaguya.ask_llm(prompt, mode) at time now
ask_llm(e, prompt, mode, now, env) ==
    LET perm == Permissions_autorise(e, "llm")
    IN IF ~perm.val
       THEN [e |-> perm.e,
             val |-> LLMResult("Permission LLM refusee.", << >>,
                               [latency_ms |-> 0, model |-> None,
                                error |-> Some([cause |-> "permission"])]),
             appels |-> << >>, packet |-> None]
       ELSE ask_llm_envoi(e, prompt,
                IF mode \in {"realtime", "reflexion"} THEN mode
                ELSE e.model_router.current_mode, now, env)

-----------------------------------------------------------------------------
(* Construction *)

\* the wall-clock hours and the seeds explored: one hour of the night and one
\* of the day; the seed of the anti-loop test and seeds whose streams meet a
\* rare event of low severity on a consolidation tick
Heures == {5, 21}
Seeds == {6, 21, 50, 77}

RngSeed(seed) == RngNext(1009 * seed)

\* CerveauKaguya.__init__(seed), at wall-clock hour h
Fresh(seed, h) ==
    [_rng |-> RngSeed(seed), tick |-> 0, sim_minutes |-> 0, sim_day_minutes |-> 0,
     sim_day_phase |-> "night", pc_day_phase |-> _compute_pc_day_phase(h),
     _last_day_index |-> 0, is_paused |-> FALSE, etat |-> EtatInterne,
     etat_monde |-> EtatMonde, intention_active |-> None, idees_backlog |-> << >>,
     memoire |-> Memoire, journal_evolutif |-> << >>, dashboard_history |-> << >>,
     journal_debug |-> << >>,
     last_action_tick |-> [a \in ActionSet |-> 0],
     competences |-> [a \in ActionSet |-> Competence],
     action_history |-> << >>,
     meta |-> [audace |-> UN, diversite |-> UN],
     cooldowns |-> [a \in ActionSet |-> 0],
     model_router |-> ModelRouter, llm_last_result |-> None,
     permissions |-> [whitelist_capacites |-> whitelist_capacites,
                      sensibles_interdites |-> sensibles_interdites,
                      refus_log |-> << >>],
     contrainte_locale |-> [hors_ligne_strict |-> TRUE, api_externe_autorisee |-> FALSE],
     trace |-> None]

IsFresh(e) ==
    /\ _rng = e._rng
    /\ tick = e.tick
    /\ sim_minutes = e.sim_minutes
    /\ sim_day_minutes = e.sim_day_minutes
    /\ sim_day_phase = e.sim_day_phase
    /\ pc_day_phase = e.pc_day_phase
    /\ _last_day_index = e._last_day_index
    /\ is_paused = e.is_paused
    /\ etat = e.etat
    /\ etat_monde = e.etat_monde
    /\ intention_active = e.intention_active
    /\ idees_backlog = e.idees_backlog
    /\ memoire = e.memoire
    /\ journal_evolutif = e.journal_evolutif
    /\ dashboard_history = e.dashboard_history
    /\ journal_debug = e.journal_debug
    /\ last_action_tick = e.last_action_tick
    /\ competences = e.competences
    /\ action_history = e.action_history
    /\ meta = e.meta
    /\ cooldowns = e.cooldowns
    /\ model_router = e.model_router
    /\ llm_last_result = e.llm_last_result
    /\ permissions = e.permissions
    /\ contrainte_locale = e.contrainte_locale
    /\ trace = e.trace

\* the request threads of the server
Threads == {1, 2}

\* a thread that handles no request
Repos == [pc |-> "repos"]

\* the host before its first request
HoteInit ==
    /\ horloge = 0
    /\ history = << >>
    /\ fils = [t \in Threads |-> Repos]

Init ==
    /\ heure \in Heures
    /\ \E seed \in Seeds : IsFresh(Fresh(seed, heure))
    /\ fs = [file \in Files |-> Absent]
    /\ retour = [op |-> "__init__", val |-> Rien]
    /\ sauve = [p \in Paths |-> None]
    /\ pas = 0
    /\ HoteInit

-----------------------------------------------------------------------------
(* Operations *)

\* a call of boucle_de_vie
Tick ==
    \E r \in {boucle_de_vie(Self, heure, fs)} :
       /\ Becomes(r.e)
       /\ fs' = r.fs
       /\ retour' = [op |-> "boucle_de_vie", val |-> r.val]
       /\ sauve' = IF r.e.tick # tick /\ r.e.tick % AUTOSAVE_EVERY_TICKS = 0
                   THEN [sauve EXCEPT ![default_snapshot_path] = Some(r.e)]
                   ELSE sauve
       /\ UNCHANGED << heure, pas >>
       /\ UNCHANGED hote

-----------------------------------------------------------------------------
(* A fresh engine driven by ticks alone *)

LongTick == tick < MaxLongTick /\ Tick

LongNext == LongTick

LongRun == Init /\ [][LongNext]_vars

-----------------------------------------------------------------------------
(* The text commands that pause and resume the loop *)

\* a command line is the sequence of its words, separated by one blank
Commandes == { << "pause" >>, << "reprendre" >> }

\* commande.strip().lower()
Normalise(ligne) == [i \in 1..Len(ligne) |-> Lower(ligne[i])]

\* c.startswith(prefix + " "): the words of prefix, then at least one more
Commence(c, prefix) ==
    Len(c) > Len(prefix) /\ SubSeq(c, 1, Len(prefix)) = prefix

\* c.replace(prefix + " ", "", 1).strip(), for a line that starts with prefix
Reste(c, prefix) == SubSeq(c, Len(prefix) + 1, Len(c))

\* f"{x:.2f}": two decimals, half to even
Round2(x) ==
    LET q == x \div 100
        r == x % 100
    IN 100 * (IF r > 50 \/ (r = 50 /\ q % 2 = 1) THEN q + 1 ELSE q)

\* the name of the active intention, or 'none'
NomIntention(e) ==
    IF e.intention_active # None THEN The(e.intention_active).nom ELSE "none"

\* ModelSpec.display_name of the registry
display_name(key) ==
    CASE key = "lmstudio-active" -> "LM Studio Active Model"
      [] key = "qwen2.5-14b" -> "Qwen2.5 14B"
      [] key = "qwen3.5-35b-a3b" -> "Qwen3.5 35B A3B"
      [] OTHER -> "none"

\* ModelRouter.status; the average is rounded down to a whole millisecond
ModelRouter_status(r) ==
    [auto_mode |-> r.auto_mode,
     mode |-> r.current_mode,
     active_model |-> IF r.active_model_key # None
                      THEN display_name(The(r.active_model_key)) ELSE "none",
     runtime_loaded |-> r.loaded_engines,
     estimated_vram_status |-> IF r.active_model_key # None THEN "ok" ELSE "idle",
     avg_latency_ms |-> IF r.latency_history = << >> THEN 0
                        ELSE SumSeq(r.latency_history) \div Len(r.latency_history),
     lmstudio_available |-> r.lmstudio_available]

\* the five prompts of the bench: none holds a keyword of MockLLMEngine
BenchPrompts ==
    << << "refus", "naturel" >>, << "negociation", "de", "risque" >>,
       << "resume", "journal" >>, << "proposition", "d'idee" >>,
       << "maintien", "personnalite" >> >>

\* quick_eval_harness: the router after the five calls of generate and the
\* latencies measured.  LM Studio does the same thing at each of the five.
RECURSIVE quick_eval_harness(_, _, _, _)
quick_eval_harness(r, todo, now, env) ==
    IF todo = << >> THEN [r |-> r, latences |-> << >>]
    ELSE LET Next(g) ==
                 LET Rest(q) ==
                         [r |-> q.r, latences |-> << g.val.meta.latency_ms >> \o q.latences]
                 IN Rest(quick_eval_harness(g.r, Tail(todo), now, env))
         IN Next(ModelRouter_generate(r, Head(todo), r.current_mode, now, env))

\* CerveauKaguya.handle_cli at time now: the engine after the command, and
\* the answer
handle_cli(e, commande, now, env) ==
    LET c == Normalise(commande)
        Proposed(ch) ==
            [e |-> ch.e, val |-> Fmt(<< "Je veux faire:", ch.val, NomIntention(ch.e) >>)]
        Asked(a) ==
            [e |-> a.e, val |-> Fmt(<< "LLM", a.val.meta.model, a.val.text >>)]
        Benched(b) ==
            [e |-> [e EXCEPT !.model_router = b.r], val |-> Fmt(<< "bench", b.latences >>)]
        Forced(k) ==
            [e |-> [e EXCEPT !.model_router = k.r],
             val |-> Str(IF k.val THEN "Modele force." ELSE "Modele inconnu.")]
    IN CASE c = << "etat" >> ->
              [e |-> e, val |-> Fmt(<< "tick=", e.tick, e.sim_day_phase, NomIntention(e),
                                       Round2(e.etat.energy), Round2(e.etat.stress),
                                       Round2(e.etat_monde.danger) >>)]
         [] c = << "resume" >> ->
              [e |-> e,
               val |-> IF e.journal_evolutif # << >>
                       THEN Fmt(<< "resume", e.journal_evolutif[Len(e.journal_evolutif)] >>)
                       ELSE Str("Pas encore de journee simulee complete.")]
         [] c = << "idees" >> ->
              [e |-> e,
               val |-> IF e.idees_backlog # << >>
                       THEN Fmt([i \in 1..Len(Head_n(e.idees_backlog, 5)) |->
                                    e.idees_backlog[i].intitule])
                       ELSE Str("Aucune idee en attente.")]
         [] c = << "propose" >> ->
              Proposed(choisir_action([e EXCEPT !.journal_debug = << >>]))
         [] Commence(c, << "suggere" >>) ->
              [e |-> e,
               val |-> IF Len(c) = 2 /\ c[2] \in ActionSet
                       THEN IF e.intention_active # None
                               /\ InSeq(c[2], The(e.intention_active).actions_preferees)
                            THEN Str("Oui, suggestion acceptee: coherente avec mon intention.")
                            ELSE Str("Non, suggestion refusee: pas coherente avec ma priorite actuelle.")
                       ELSE Str("Non, suggestion inconnue.")]
         [] c = << "pause" >> ->
              [e |-> [e EXCEPT !.is_paused = TRUE], val |-> Str("Boucle mise en pause.")]
         [] c = << "reprendre" >> ->
              [e |-> [e EXCEPT !.is_paused = FALSE], val |-> Str("Boucle reprise.")]
         [] c = << "model", "status" >> ->
              [e |-> e, val |-> Fmt(<< "status", ModelRouter_status(e.model_router) >>)]
         [] c = << "model", "auto" >> ->
              [e |-> [e EXCEPT !.model_router = ModelRouter_set_auto(@, TRUE)],
               val |-> Str("Selection modele: AUTO active.")]
         [] Commence(c, << "model", "set" >>) ->
              Forced(ModelRouter_force_model(e.model_router,
                         IF Len(c) = 3 THEN c[3] ELSE "")) 
         [] c = << "mode", "realtime" >> ->
              [e |-> [e EXCEPT !.model_router = ModelRouter_set_mode(@, "realtime")],
               val |-> Str("Mode inference: realtime.")]
         [] c = << "mode", "reflexion" >> ->
              [e |-> [e EXCEPT !.model_router = ModelRouter_set_mode(@, "reflexion")],
               val |-> Str("Mode inference: reflexion.")]
         [] c = << "llm", "ask" >> ->
              Asked(ask_llm(e, << "etat", "et", "proposition" >>,
                            e.model_router.current_mode, now, env))
         [] c = << "bench" >> ->
              Benched(quick_eval_harness(e.model_router, BenchPrompts, now, env))
         [] OTHER -> [e |-> e, val |-> Str("Commande non reconnue.")]

\* what the host of the engine meets at a call: what LM Studio does with a
\* request (lm), what it answers to a probe (sonde), and the seconds gone by
\* since the call before (dt)
Envs == [lm : Reponses, sonde : BOOLEAN, dt : {0, 2}]

\* an LM Studio that is not reachable, as on a machine without it
SansLMStudio == [lm |-> "injoignable", sonde |-> FALSE, dt |-> 0]

Cli ==
    /\ pas < MaxPas
    /\ \E c \in Commandes :
          \E r \in {handle_cli(Self, c, horloge, SansLMStudio)} :
             /\ Becomes(r.e)
             /\ retour' = [op |-> "handle_cli", val |-> r.val]
    /\ pas' = pas + 1
    /\ UNCHANGED << heure, fs, sauve >>
    /\ UNCHANGED hote

CliTick == (tick < MaxTick \/ is_paused) /\ Tick

CliNext == CliTick \/ Cli

CliRun == Init /\ [][CliNext]_vars

-----------------------------------------------------------------------------
(* Decisions of an engine whose state was set before the call *)

\* the intentions _choose_intention can install, still running at tick t
Intentions(t) ==
    { IntentionActive("tester une idee", "Idea", << "explore", "practice", "reflect" >>, t + 5),
      IntentionActive("recuperer", "Recover", << "rest", "reflect", "idle" >>, t + 5),
      IntentionActive("stabiliser", "Stabilize", << "organize", "reflect", "rest" >>, t + 5),
      IntentionActive("explorer", "Explore", << "explore", "reflect", "practice" >>, t + 5),
      IntentionActive("progresser", "Progress", << "practice", "organize", "reflect" >>, t + 5) }

\* energy below, just below and at the threshold of the low-energy gate
Energies == {1000, 1999, 2000}

\* the default mood, one where stability and stress close the challenge gate,
\* one where stability alone closes it and one where stress alone does, each
\* by the smallest margin
Humeurs ==
    { [stability |-> 7000, stress |-> 2500], [stability |-> 2000, stress |-> 9000],
      [stability |-> 2999, stress |-> 8500], [stability |-> 3000, stress |-> 8501] }

\* a tested engine: fields of a fresh engine assigned before the decision
Prepared(seed, h, energy, humeur, intention, idees, encooldown, evitees) ==
    LET e == Fresh(seed, h)
    IN [e EXCEPT !.etat.energy = energy,
                 !.etat.stability = humeur.stability,
                 !.etat.stress = humeur.stress,
                 !.intention_active = intention,
                 !.idees_backlog = idees,
                 !.cooldowns = [a \in ActionSet |->
                                   IF a \in encooldown THEN e.tick + 5 ELSE 0],
                 !.memoire.long_terme =
                     [a \in ActionSet |->
                         IF a \in evitees
                         THEN [e.memoire.long_terme[a] EXCEPT !.avoid_until_tick = e.tick + 40]
                         ELSE e.memoire.long_terme[a]]]

GateInit ==
    /\ heure = 21
    /\ \E energy \in Energies, humeur \in Humeurs,
          intention \in {None} \cup {Some(i) : i \in Intentions(0)},
          idees \in {<< >>, << Idee("capitaliser rest", "montee de competence",
                                    3000, 3500, 8000, 0) >>},
          encooldown \in SUBSET {"rest", "idle", "reflect", "explore"},
          evitees \in SUBSET {"rest", "idle", "reflect"} :
          IsFresh(Prepared(21, heure, energy, humeur, intention, idees, encooldown, evitees))
    /\ fs = [file \in Files |-> Absent]
    /\ retour = [op |-> "__init__", val |-> Rien]
    /\ sauve = [p \in Paths |-> None]
    /\ pas = 0
    /\ HoteInit

\* a call of choisir_action
Decide ==
    /\ pas < MaxDecisions
    /\ \E r \in {choisir_action([Self EXCEPT !.journal_debug = << >>])} :
          /\ Becomes(r.e)
          /\ retour' = [op |-> "choisir_action", val |-> Str(r.val)]
    /\ pas' = pas + 1
    /\ UNCHANGED << heure, fs, sauve >>
    /\ UNCHANGED hote

GateNext == Decide

GateRun == GateInit /\ [][GateNext]_vars

-----------------------------------------------------------------------------
(* Snapshots: saves and loads, restarts of the process, damage to the files *)

SnapPath == "snap.json"

\* every engine variable is left as it is
EngineUnchanged ==
    UNCHANGED << _rng, tick, sim_minutes, sim_day_minutes, sim_day_phase, pc_day_phase,
                 _last_day_index, is_paused, etat, etat_monde, intention_active,
                 idees_backlog, memoire, journal_evolutif, dashboard_history,
                 journal_debug, last_action_tick, competences, action_history, meta,
                 cooldowns, model_router, llm_last_result, permissions,
                 contrainte_locale, trace >>

\* save_snapshot(SnapPath)
Save ==
    /\ pas < MaxOps
    /\ \E r \in {save_snapshot(Self, fs, SnapPath)} :
          /\ Becomes(r.e)
          /\ fs' = r.fs
          /\ sauve' = IF Permissions_autorise(Self, "snapshot").val
                      THEN [sauve EXCEPT ![SnapPath] = Some(Self)] ELSE sauve
    /\ retour' = [op |-> "save_snapshot", val |-> Rien]
    /\ pas' = pas + 1
    /\ UNCHANGED heure
    /\ UNCHANGED hote

\* load_snapshot(SnapPath)
Load ==
    /\ pas < MaxOps
    /\ \E r \in {load_snapshot(Self, fs, SnapPath)} :
          /\ Becomes(r.e)
          /\ retour' = [op |-> "load_snapshot", val |-> Bool(r.val)]
    /\ pas' = pas + 1
    /\ UNCHANGED << heure, fs, sauve >>
    /\ UNCHANGED hote

\* the process ends and a new engine is constructed with the same seed, once
\* the first one has run; the files stay
Restart ==
    /\ pas < MaxOps
    /\ tick > 0
    /\ Becomes(Fresh(21, heure))
    /\ retour' = [op |-> "__init__", val |-> Rien]
    /\ pas' = pas + 1
    /\ UNCHANGED << heure, fs, sauve >>
    /\ UNCHANGED hote

SnapFiles == {Primary(SnapPath), Backup(SnapPath)}

\* what can happen to a snapshot file outside the engine: its text is
\* damaged, it is deleted, or it is replaced by a snapshot of another version
Damaged(content) ==
    {Corrompu, Absent}
        \cup (IF content.kind = "json"
              THEN {[content EXCEPT !.data.version = SNAPSHOT_VERSION - 1]} ELSE {})

Damage ==
    /\ pas < MaxOps
    /\ \E file \in SnapFiles :
          /\ fs[file].kind = "json"
          /\ \E content \in Damaged(fs[file]) : fs' = [fs EXCEPT ![file] = content]
          /\ sauve' = IF file = Primary(SnapPath)
                      THEN [sauve EXCEPT ![SnapPath] = None] ELSE sauve
          /\ retour' = [op |-> "damage", val |-> Rien]
    /\ pas' = pas + 1
    /\ EngineUnchanged
    /\ UNCHANGED heure
    /\ UNCHANGED hote

SnapInit == Init /\ heure = 21 /\ _rng = RngSeed(21)

SnapTick == tick < MaxTick /\ Tick

SnapNext == SnapTick \/ Save \/ Load \/ Restart \/ Damage

SnapRun == SnapInit /\ [][SnapNext]_vars

-----------------------------------------------------------------------------
(* The anti-loop penalty on an engine whose action history was set *)

Repete(a, n) == [i \in 1..n |-> a]

\* the actions of the histories: the one the loop falls into most, and another
Boucles == {"rest", "explore"}

\* histories made of three runs of up to MaxRun identical actions
Histoires ==
    { Repete(a, i) \o Repete(b, j) \o Repete(a, k) :
          a \in Boucles, b \in Boucles, i \in 0..MaxRun, j \in 0..MaxRun, k \in 0..MaxRun }

LoopInit ==
    /\ heure = 21
    /\ \E h \in Histoires, t \in {0, 7} :
          IsFresh([Fresh(21, heure) EXCEPT !.action_history = h, !.tick = t])
    /\ fs = [file \in Files |-> Absent]
    /\ retour = [op |-> "__init__", val |-> Rien]
    /\ sauve = [p \in Paths |-> None]
    /\ pas = 0
    /\ HoteInit

\* a call of _anti_loop_penalty(action)
Penalise ==
    /\ pas < MaxDecisions
    /\ \E action \in Boucles :
          \E r \in {_anti_loop_penalty(Self, action)} :
             /\ Becomes(r.e)
             /\ retour' = [op |-> "_anti_loop_penalty",
                           val |-> [action |-> action, penalty |-> r.val]]
    /\ pas' = pas + 1
    /\ UNCHANGED << heure, fs, sauve >>
    /\ UNCHANGED hote

LoopNext == Penalise

LoopRun == LoopInit /\ [][LoopNext]_vars

-----------------------------------------------------------------------------
(* Claims checked on LongRun *)

InRange(r) == \A f \in DOMAIN r : r[f] >= 0 /\ r[f] <= UN

\* C1: after every call of boucle_de_vie from a fresh engine, each of the 7
\* scalars of the internal state and each of the 5 scalars of the world state
\* lies within [0, 1].
C1_EtatsBornes == InRange(etat) /\ InRange(etat_monde)

\* C1 witness: after a tick, scalars sit on both ends of the interval, where the
\* clamp holds them.
C1_Witness ==
    /\ tick > 0
    /\ etat.curiosity = UN
    /\ etat.stress = 0
    /\ etat_monde.opportunites = UN

\* the action executed by the latest tick and its outcome
Executed == action_history[Len(action_history)]
Outcome == memoire.court_terme[Len(memoire.court_terme)].success

StreaksExclusive ==
    \A a \in ActionSet :
        ~(memoire.long_terme[a].recent_success_streak > 0
          /\ memoire.long_terme[a].recent_fail_streak > 0)

StreaksStep ==
    tick' = tick + 1 =>
        \A a \in ActionSet :
            LET m == memoire.long_terme[a]
                n == memoire'.long_terme[a]
            IN IF a # Executed'
               THEN /\ n.recent_success_streak = m.recent_success_streak
                    /\ n.recent_fail_streak = m.recent_fail_streak
               ELSE IF Outcome'
               THEN /\ n.recent_fail_streak = 0
                    /\ n.recent_success_streak = m.recent_success_streak + 1
               ELSE /\ n.recent_success_streak = 0
                    /\ n.recent_fail_streak = m.recent_fail_streak + 1

\* C4: for every action the success streak and the fail streak are never both
\* greater than 0; a success of an action sets its fail streak to 0 and adds 1
\* to its success streak, a failure sets its success streak to 0 and adds 1 to
\* its fail streak, and the outcome of another action leaves both unchanged.
C4_StreaksExclusifs == []StreaksExclusive /\ [][StreaksStep]_vars

\* C4 witness: an action has just succeeded after a failure streak of 2 was
\* recorded for it earlier, and another action is on a fail streak after
\* earlier successes.
C4_Witness ==
    /\ tick > 0
    /\ Outcome
    /\ memoire.long_terme[Executed].n_fail >= 2
    /\ memoire.long_terme[Executed].recent_success_streak >= 1
    /\ \E a \in ActionSet :
          /\ memoire.long_terme[a].recent_fail_streak >= 1
          /\ memoire.long_terme[a].n_success >= 1

Graves(souvenirs) == \A i \in 1..Len(souvenirs) : souvenirs[i].gravite >= 5500

ConsolidationTick == tick > 0 /\ tick % 48 = 0

\* C5: the consolidation pass (identity drift and pruning of the notable
\* memories) changes something only on a tick that is a multiple of 48, and at
\* the end of every such tick no notable memory has a severity below 0.55,
\* the memory of a rare event of that same tick included.
C5_Consolidation ==
    /\ ConsolidationTick => Graves(memoire.souvenirs_marquants)
    /\ (trace # None /\ tick % 48 # 0) =>
           The(trace).avant_consolidation = The(trace).apres_consolidation

\* C5 witness: a rare event of a consolidation tick left a memory of severity
\* below 0.55, which the pass of that tick removed.
C5_Witness ==
    /\ ConsolidationTick
    /\ trace # None
    /\ LET avant == The(trace).avant_consolidation.souvenirs_marquants
       IN /\ avant # << >>
          /\ avant[Len(avant)].tick = tick
          /\ avant[Len(avant)].gravite < 5500
          /\ Len(memoire.souvenirs_marquants) < Len(avant)

SummariesSound ==
    \A i \in 1..Len(journal_evolutif) :
        /\ journal_evolutif[i].dashboard.fail_rate >= 0
        /\ journal_evolutif[i].dashboard.fail_rate <= UN
        /\ journal_evolutif[i].dashboard.top_actions # << >>

SummaryStep ==
    LET n == IF sim_minutes' \div 1440 > sim_minutes \div 1440 THEN 1 ELSE 0
    IN /\ Len(journal_evolutif') = Len(journal_evolutif) + n
       /\ Len(dashboard_history') = Len(dashboard_history) + n

\* C10: from a fresh engine, after at least 290 ticks the day-summary log
\* (journal_evolutif and dashboard_history) holds at least one entry; a summary
\* is appended exactly once each time floor(sim_minutes / 1440) increases; every
\* summary's dashboard has a fail_rate within [0, 1] and a non-empty top_actions.
C10_ResumeJournalier ==
    /\ [](tick >= 290 => Len(journal_evolutif) >= 1 /\ Len(dashboard_history) >= 1)
    /\ []SummariesSound
    /\ [][SummaryStep]_vars

\* C10 witness: 290 ticks have run, the log holds the summary of the first day
\* and its dashboard counted failures.
C10_Witness ==
    /\ tick >= 290
    /\ Len(journal_evolutif) >= 1
    /\ journal_evolutif[1].day_index = 1
    /\ journal_evolutif[1].dashboard.fail_rate > 0
    /\ Len(journal_evolutif[1].dashboard.top_actions) = 3

-----------------------------------------------------------------------------
(* Claims checked on CliRun *)

AppelBoucle == retour'.op = "boucle_de_vie"

-----------------------------------------------------------------------------
(* Claims checked on GateRun *)

BasseEnergie == {"rest", "idle", "reflect"}

Decision == journal_debug[Len(journal_debug)]

\* C3: whenever energy < 0.20 at decision time, the gated candidates are a
\* subset of {rest, idle, reflect} and the action chosen by choisir_action is
\* one of them, whatever the active intention, the avoid-until gates and the
\* cooldowns; if rest is the only candidate, rest is chosen.
C3_EnergieBasse ==
    (retour.op = "choisir_action" /\ etat.energy < 2000) =>
        /\ \A i \in 1..Len(Decision.cands) : Decision.cands[i] \in BasseEnergie
        /\ Decision.chosen \in BasseEnergie
        /\ retour.val = Str(Decision.chosen)
        /\ Decision.cands = << "rest" >> => Decision.chosen = "rest"

\* C3 witness: at low energy, with rest and idle under cooldown and reflect
\* avoided, and an intention to explore still running, the only candidate is
\* rest and rest is chosen.
C3_Witness ==
    /\ retour.op = "choisir_action"
    /\ etat.energy = 1999
    /\ cooldowns["rest"] > tick /\ cooldowns["idle"] > tick
    /\ memoire.long_terme["reflect"].avoid_until_tick > tick
    /\ intention_active # None
    /\ The(intention_active).nom = "explorer"
    /\ Decision.cands = << "rest" >>
    /\ retour.val = Str("rest")

-----------------------------------------------------------------------------
(* Claims checked on SnapRun *)

\* a file load_snapshot cannot use: missing, not JSON, or of another version
Illisible(content) ==
    content.kind # "json" \/ content.data.version # SNAPSHOT_VERSION

\* the engine after the step holds every field the document records
EngineIs(d) ==
    /\ tick' = d.tick
    /\ sim_minutes' = d.sim_minutes
    /\ etat' = d.etat
    /\ etat_monde' = d.monde
    /\ meta' = d.meta
    /\ competences' = d.competences
    /\ memoire' = d.memoire
    /\ intention_active' = d.intention_active
    /\ idees_backlog' = d.idees_backlog
    /\ model_router'.auto_mode = d.router.auto_mode
    /\ model_router'.forced_model_key = d.router.forced_model_key
    /\ model_router'.current_mode = d.router.current_mode
    /\ model_router'.keep_warm = d.router.keep_warm

\* C6: save_snapshot followed by load_snapshot of the same path, its file
\* intact, on the same or a fresh engine, returns true and reproduces the
\* tick, sim_minutes, internal state, world state and per-action competences
\* the engine had when it saved.
C6_AllerRetour ==
    [][(retour'.op = "load_snapshot" /\ sauve[SnapPath] # None) =>
          /\ retour'.val = Bool(TRUE)
          /\ tick' = The(sauve[SnapPath]).tick
          /\ sim_minutes' = The(sauve[SnapPath]).sim_minutes
          /\ etat' = The(sauve[SnapPath]).etat
          /\ etat_monde' = The(sauve[SnapPath]).etat_monde
          /\ competences' = The(sauve[SnapPath]).competences]_vars

\* C6 witness: a snapshot saved after two ticks was loaded by a fresh engine,
\* which now stands at tick 2 with the competences of the engine that saved.
C6_Witness ==
    /\ retour.op = "load_snapshot"
    /\ retour.val = Bool(TRUE)
    /\ sauve[SnapPath] # None
    /\ tick = 2
    /\ action_history = << >>
    /\ competences # [a \in ActionSet |-> Competence]
    /\ competences = The(sauve[SnapPath]).competences

\* C7: when the primary snapshot is missing, not valid JSON or of another
\* version, and the .bak file is a valid snapshot of the expected version,
\* load_snapshot returns true and the engine state is the one the .bak records.
C7_RepliSurBak ==
    [][(retour'.op = "load_snapshot"
        /\ Illisible(fs[Primary(SnapPath)]) /\ ~Illisible(fs[Backup(SnapPath)])) =>
          /\ retour'.val = Bool(TRUE)
          /\ EngineIs(fs[Backup(SnapPath)].data)]_vars

\* C7 witness: the primary is damaged, the backup holds a snapshot of tick 1,
\* and a load on an engine that had moved on to tick 2 brought it back to 1.
C7_Witness ==
    /\ retour.op = "load_snapshot"
    /\ retour.val = Bool(TRUE)
    /\ Illisible(fs[Primary(SnapPath)])
    /\ ~Illisible(fs[Backup(SnapPath)])
    /\ tick = 1
    /\ fs[Backup(SnapPath)].data.tick = 1
    /\ action_history # << >>
    /\ Len(action_history) = 2

\* C8: when the primary and the .bak snapshot are both unreadable or of
\* another version (or the .bak is absent), load_snapshot returns false and
\* every field of the engine state is unchanged.
C8_EchecSansEffet ==
    [][(retour'.op = "load_snapshot"
        /\ Illisible(fs[Primary(SnapPath)]) /\ Illisible(fs[Backup(SnapPath)])) =>
          /\ retour'.val = Bool(FALSE)
          /\ EngineUnchanged]_vars

\* C8 witness: the primary is not JSON, the backup is a snapshot of another
\* version recording tick 1, and a load on an engine at tick 2 returned false.
C8_Witness ==
    /\ retour.op = "load_snapshot"
    /\ retour.val = Bool(FALSE)
    /\ fs[Primary(SnapPath)] = Corrompu
    /\ fs[Backup(SnapPath)].kind = "json"
    /\ fs[Backup(SnapPath)].data.version # SNAPSHOT_VERSION
    /\ fs[Backup(SnapPath)].data.tick = 1
    /\ tick = 2

-----------------------------------------------------------------------------
(* Claims checked on LoopRun *)

\* how many of the last 30 entries of the action history are the action a
Occurrences(a) ==
    LET n == Len(action_history)
    IN Cardinality({i \in 1..n : i > n - 30 /\ action_history[i] = a})

\* C9: when an action occurs at least 12 times among the last 30 entries of
\* the action history, _anti_loop_penalty for it returns at least 0.30 and
\* sets its cooldown to tick + 5, beyond the current tick; below 12
\* occurrences the penalty is 0.02 per occurrence and no cooldown is set.
C9_AntiBoucle ==
    [][retour'.op = "_anti_loop_penalty" =>
          LET a == retour'.val.action
              penalty == retour'.val.penalty
          IN IF Occurrences(a) >= 12
             THEN /\ penalty >= 3000
                  /\ cooldowns'[a] = tick + 5
                  /\ cooldowns'[a] > tick
             ELSE /\ penalty * 100 = 2 * UN * Occurrences(a)
                  /\ cooldowns' = cooldowns]_vars

\* C9 witness: after 30 consecutive rest the penalty for rest is 0.30 and rest
\* is under cooldown until tick + 5, while explore, absent from the history,
\* has no cooldown.
C9_Witness ==
    /\ retour.op = "_anti_loop_penalty"
    /\ retour.val.action = "rest"
    /\ action_history = Repete("rest", 30)
    /\ retour.val.penalty = 3000
    /\ cooldowns["rest"] = tick + 5
    /\ cooldowns["explore"] = 0

-----------------------------------------------------------------------------
(* The guards of the loop: the permissions and the local-execution         *)
(* constraint are plain attributes of the engine, which its host can set   *)

\* the capabilities asked for: two of the allow-list, one of the forbidden
\* list, one on neither
Capacites == {"simulate", "llm", "network", "camera"}

\* the settings a host gives to the allow-list and to the forbidden list
Reglages ==
    { [whitelist_capacites |-> w, sensibles_interdites |-> s] :
        w \in {whitelist_capacites, whitelist_capacites \ {"simulate"}},
        s \in {sensibles_interdites, sensibles_interdites \cup {"simulate"}} }

\* cerveau.permissions.whitelist_capacites = ..., .sensibles_interdites = ...
ReglerPermissions ==
    /\ pas < MaxPas
    /\ \E r \in Reglages :
          permissions' = [permissions EXCEPT
                             !.whitelist_capacites = r.whitelist_capacites,
                             !.sensibles_interdites = r.sensibles_interdites]
    /\ retour' = [op |-> "regler", val |-> Rien]
    /\ pas' = pas + 1
    /\ UNCHANGED << _rng, heure, tick, sim_minutes, sim_day_minutes, sim_day_phase,
                    pc_day_phase, _last_day_index, is_paused, etat, etat_monde,
                    intention_active, idees_backlog, memoire, journal_evolutif,
                    dashboard_history, journal_debug, last_action_tick, competences,
                    action_history, meta, cooldowns, model_router, llm_last_result,
                    contrainte_locale, fs, trace, sauve >>
    /\ UNCHANGED hote

\* cerveau.contrainte_locale.hors_ligne_strict = ..., .api_externe_autorisee = ...
ReglerContrainte ==
    /\ pas < MaxPas
    /\ \E h \in BOOLEAN, a \in BOOLEAN :
          contrainte_locale' = [hors_ligne_strict |-> h, api_externe_autorisee |-> a]
    /\ retour' = [op |-> "regler", val |-> Rien]
    /\ pas' = pas + 1
    /\ UNCHANGED << _rng, heure, tick, sim_minutes, sim_day_minutes, sim_day_phase,
                    pc_day_phase, _last_day_index, is_paused, etat, etat_monde,
                    intention_active, idees_backlog, memoire, journal_evolutif,
                    dashboard_history, journal_debug, last_action_tick, competences,
                    action_history, meta, cooldowns, model_router, llm_last_result,
                    permissions, fs, trace, sauve >>
    /\ UNCHANGED hote

\* cerveau.permissions.autorise(capacite, cerveau.tick)
Autorise ==
    /\ pas < MaxPas
    /\ Len(permissions.refus_log) < MaxRefus
    /\ \E capacite \in Capacites :
          \E r \in {Permissions_autorise(Self, capacite)} :
             /\ Becomes(r.e)
             /\ retour' = [op |-> "autorise", capacite |-> capacite, val |-> Bool(r.val)]
    /\ pas' = pas + 1
    /\ UNCHANGED << heure, fs, sauve >>
    /\ UNCHANGED hote

GardeInit == Init /\ heure = 21 /\ _rng \in {RngSeed(6), RngSeed(21)}

GardeTick == tick < MaxTick /\ Len(permissions.refus_log) < MaxRefus /\ Tick

GardeNext == GardeTick \/ Cli \/ Autorise \/ ReglerPermissions \/ ReglerContrainte

GardeRun == GardeInit /\ [][GardeNext]_vars

-----------------------------------------------------------------------------
(* Claims checked on GardeRun *)

AppelAutorise == retour'.op = "autorise"

\* the capability is on the forbidden list or not on the allow-list
Interdite(capacite) ==
    \/ capacite \in permissions.sensibles_interdites
    \/ capacite \notin permissions.whitelist_capacites

Refus(capacite) ==
    [tick |-> tick, capacite |-> capacite, raison |-> "capacite non autorisee"]

\* tick, sim_minutes, both states and the memory are left as they are
SimulationInchangee ==
    UNCHANGED << tick, sim_minutes, sim_day_minutes, sim_day_phase, etat, etat_monde,
                 memoire, competences, action_history, last_action_tick, cooldowns,
                 intention_active, idees_backlog, meta, _rng >>

\* C11: Permissions.autorise answers false and appends exactly one denial
\* record (tick, capability, reason) when the capability is on the forbidden
\* list or not on the allow-list, and answers true and appends nothing
\* otherwise; a call of boucle_de_vie that is denied 'simulate' returns the
\* refusal message, raises nothing, appends that one denial and leaves the
\* tick and the simulation state as they were.
C11_RefusJournalise ==
    [][/\ AppelAutorise =>
            /\ Interdite(retour'.capacite) =>
                  /\ retour'.val = Bool(FALSE)
                  /\ permissions'.refus_log =
                        Append(permissions.refus_log, Refus(retour'.capacite))
            /\ ~Interdite(retour'.capacite) =>
                  /\ retour'.val = Bool(TRUE)
                  /\ permissions' = permissions
       /\ (AppelBoucle /\ ~is_paused /\ Interdite("simulate")
             /\ contrainte_locale.hors_ligne_strict
             /\ ~contrainte_locale.api_externe_autorisee) =>
            /\ retour'.val = Str("Action refusee par permissions.")
            /\ permissions'.refus_log = Append(permissions.refus_log, Refus("simulate"))
            /\ SimulationInchangee
       /\ (AppelBoucle /\ permissions'.refus_log # permissions.refus_log) =>
            /\ retour'.val = Str("Action refusee par permissions.")
            /\ SimulationInchangee]_vars

\* C11 witness: 'network' was denied before the first tick, one tick ran, then
\* 'simulate' was taken off the allow-list and the next call was refused; the
\* audit log holds the two denials, each with the tick of its call.
C11_Witness ==
    /\ retour.op = "boucle_de_vie"
    /\ retour.val = Str("Action refusee par permissions.")
    /\ tick = 1
    /\ "simulate" \notin permissions.whitelist_capacites
    /\ permissions.refus_log =
          << [tick |-> 0, capacite |-> "network", raison |-> "capacite non autorisee"],
             [tick |-> 1, capacite |-> "simulate", raison |-> "capacite non autorisee"] >>

\* the constraint of local execution is violated
Violee == (~contrainte_locale.hors_ligne_strict) \/ contrainte_locale.api_externe_autorisee

\* C12 as stated: whenever hors_ligne_strict is false or api_externe_autorisee
\* is true, a call of boucle_de_vie aborts with a fatal error and leaves the
\* tick, sim_minutes, both states and the memory as they were.
C12_Original ==
    [][(AppelBoucle /\ Violee) =>
          /\ retour'.val = Leve("RuntimeError")
          /\ SimulationInchangee]_vars

\* C12: no tick runs while the constraint is violated: a call of
\* boucle_de_vie on an engine that is not paused then aborts with a
\* RuntimeError, a call on a paused engine returns the pause message, and
\* either way the tick, sim_minutes, both states and the memory are left as
\* they were.
C12_ContrainteFatale ==
    [][(AppelBoucle /\ Violee) =>
          /\ ~is_paused => retour'.val = Leve("RuntimeError")
          /\ is_paused => retour'.val = Str("Boucle en pause.")
          /\ SimulationInchangee
          /\ permissions' = permissions]_vars

\* C12 witness: a tick ran, external APIs were then allowed although the
\* offline flag is still set, and the next call was aborted.
C12_Witness ==
    /\ retour.op = "boucle_de_vie"
    /\ retour.val = Leve("RuntimeError")
    /\ tick = 1
    /\ contrainte_locale = [hors_ligne_strict |-> TRUE, api_externe_autorisee |-> TRUE]
    /\ ~is_paused

-----------------------------------------------------------------------------
(* The chat service (src/kaguya/server.py)                                  *)
(*                                                                          *)
(* A message is [slash, mots]: whether its text starts with "/", and the    *)
(* words that follow.                                                       *)

Message(slash, mots) == [slash |-> slash, mots |-> mots]

\* ChatService.state_payload, pret being the answer of lmstudio_is_ready()
state_payload(e, pret) ==
    [tick |-> e.tick, phase |-> e.sim_day_phase, intention |-> e.intention_active,
     etat |-> e.etat, monde |-> e.etat_monde,
     router |-> ModelRouter_status(e.model_router),
     ideas |-> Head_n(e.idees_backlog, 5), lmstudio_ready |-> pret]

\* mutant of _apply_command: a RESUME is not applied
_apply_command_sans_reprise(e, cmd) ==
    IF cmd.cmd = "PAUSE" THEN [e EXCEPT !.is_paused = TRUE]
    ELSE e

\* ChatService._apply_command
_apply_command(e, cmd) ==
    IF cmd.cmd = "PAUSE" THEN [e EXCEPT !.is_paused = TRUE]
    ELSE IF cmd.cmd = "RESUME" THEN [e EXCEPT !.is_paused = FALSE]
    ELSE e

\* for cmd in llm_result.commands: self._apply_command(cmd)
RECURSIVE _apply_commands(_, _)
_apply_commands(e, commands) ==
    IF commands = << >> THEN e
    ELSE _apply_commands(_apply_command(e, Head(commands)), Tail(commands))

\* the answer of handle_message and the entry it appends to the history
Repondu(e, f, hist, message, payload, appels, packet) ==
    [e |-> e, fs |-> f,
     history |-> Append(hist, [user |-> message, assistant |-> payload.reply,
                               tick |-> e.tick]),
     val |-> payload, appels |-> appels, packet |-> packet]

\* ChatService._run_slash_command on a message that starts with "/", and
\* the end of handle_message for it
handle_message_slash(e, f, hist, message, now, env) ==
    LET command == message.mots
        Chatted(a) ==
            Repondu(a.e, f, hist, message,
                    [reply |-> Str(a.val.text), commands |-> a.val.commands,
                     meta |-> [latency_ms |-> a.val.meta.latency_ms,
                               model |-> a.val.meta.model,
                               error |-> a.val.meta.error, mode |-> "slash"],
                     tick_log |-> Str(""), state |-> state_payload(a.e, env.sonde)],
                    a.appels, a.packet)
        Handled(r) ==
            Repondu(r.e, f, hist, message,
                    [reply |-> r.val, commands |-> << >>,
                     meta |-> [mode |-> "slash", error |-> None],
                     tick_log |-> Str(""), state |-> state_payload(r.e, env.sonde)],
                    << >>, None)
    IN IF command = << >>
       THEN Repondu(e, f, hist, message,
                    [reply |-> Str("Commande vide. Exemple: /etat"), commands |-> << >>,
                     meta |-> [mode |-> "slash",
                              error |-> Some([cause |-> "empty_command"])],
                     tick_log |-> Str(""), state |-> state_payload(e, env.sonde)],
                    << >>, None)
       ELSE IF Commence(command, << "chat" >>)
       THEN Chatted(ask_llm(e, Reste(command, << "chat" >>), "realtime", now, env))
       ELSE Handled(handle_cli(e, command, now, env))

\* handle_message for a message that is no slash command, once its call of
\* boucle_de_vie has returned tick_log: the text-generation request, its
\* commands applied, the answer
handle_message_llm(e, f, hist, message, mode, tick_log, now, env) ==
    LET Asked(a) ==
            LET Applied(e2) ==
                    Repondu(e2, f, hist, message,
                            [reply |-> Str(a.val.text), commands |-> a.val.commands,
                             meta |-> a.val.meta, tick_log |-> tick_log,
                             state |-> state_payload(e2, env.sonde)],
                            a.appels, a.packet)
            IN Applied(_apply_commands(a.e, a.val.commands))
    IN Asked(ask_llm(e, message.mots, mode, now, env))

\* mutant of handle_message_normal: the text-generation request is issued
\* before the life-cycle step
handle_message_llm_avant(e, f, hist, message, mode, h, now, env) ==
    LET Asked(a) ==
            LET Ticked(t) ==
                    LET Applied(e2) ==
                            Repondu(e2, t.fs, hist, message,
                                    [reply |-> Str(a.val.text), commands |-> a.val.commands,
                                     meta |-> a.val.meta, tick_log |-> t.val,
                                     state |-> state_payload(e2, env.sonde)],
                                    a.appels, a.packet)
                    IN Applied(_apply_commands(t.e, a.val.commands))
            IN Ticked(boucle_de_vie(a.e, h, f))
    IN Asked(ask_llm(e, message.mots, mode, now, env))

\* handle_message for a message that is no slash command; an exception that
\* leaves boucle_de_vie leaves handle_message
handle_message_normal(e, f, hist, message, mode, h, now, env) ==
    LET Ticked(t) ==
            IF EstLeve(t.val)
            THEN [e |-> t.e, fs |-> t.fs, history |-> hist, val |-> t.val,
                  appels |-> << >>, packet |-> None]
            ELSE handle_message_llm(t.e, t.fs, hist, message, mode, t.val, now, env)
    IN Ticked(boucle_de_vie(e, h, f))

\* ChatService.handle_message(message, mode) at wall-clock hour h and time
\* now: the engine, the files and the history after the call, the payload
\* returned, the calls made to text-generation engines and the packet sent
handle_message(e, f, hist, message, mode, h, now, env) ==
    IF message.slash THEN handle_message_slash(e, f, hist, message, now, env)
    ELSE handle_message_normal(e, f, hist, message, mode, h, now, env)

\* ChatService(): its engine is CerveauKaguya(seed=42)
ChatInit ==
    /\ heure \in Heures
    /\ IsFresh(Fresh(42, heure))
    /\ fs = [file \in Files |-> Absent]
    /\ retour = [op |-> "__init__", val |-> Rien]
    /\ sauve = [p \in Paths |-> None]
    /\ pas = 0
    /\ HoteInit

\* the autosave of a tick that ended on a multiple of AUTOSAVE_EVERY_TICKS
Autosauve(e) ==
    IF e.tick # tick /\ e.tick % AUTOSAVE_EVERY_TICKS = 0
    THEN [sauve EXCEPT ![default_snapshot_path] = Some(e)] ELSE sauve

\* the messages sent to the service and the mode given with each: slash
\* commands, among them an empty one and a chat; plain messages, among them
\* some that hold a keyword of MockLLMEngine
Envois ==
    { [message |-> Message(TRUE, << "etat" >>), mode |-> "realtime"],
      [message |-> Message(TRUE, << "pause" >>), mode |-> "realtime"],
      [message |-> Message(TRUE, << "reprendre" >>), mode |-> "realtime"],
      [message |-> Message(TRUE, << "propose" >>), mode |-> "realtime"],
      [message |-> Message(TRUE, << "chat", "pause" >>), mode |-> "realtime"],
      [message |-> Message(TRUE, << >>), mode |-> "realtime"],
      [message |-> Message(FALSE, << "bonjour" >>), mode |-> "realtime"],
      [message |-> Message(FALSE, << "une", "PAUSE" >>), mode |-> "reflexion"],
      [message |-> Message(FALSE, << "reprendre" >>), mode |-> "turbo"] }

\* an LM Studio that answers
AvecLMStudio == [lm |-> "texte", sonde |-> TRUE, dt |-> 2]

EnvsChat == {SansLMStudio, AvecLMStudio}

\* service.handle_message(message, mode)
Recoit ==
    /\ pas < MaxPas
    /\ \E envoi \in Envois, env \in EnvsChat :
          \E r \in {handle_message(Self, fs, history, envoi.message, envoi.mode,
                                   heure, horloge + env.dt, env)} :
             /\ Becomes(r.e)
             /\ fs' = r.fs
             /\ history' = r.history
             /\ horloge' = horloge + env.dt
             /\ sauve' = Autosauve(r.e)
             /\ retour' = [op |-> "handle_message", message |-> envoi.message,
                           val |-> r.val, appels |-> r.appels, packet |-> r.packet]
    /\ pas' = pas + 1
    /\ UNCHANGED << heure, fils >>

ChatNext == Recoit

ChatRun == ChatInit /\ [][ChatNext]_vars

-----------------------------------------------------------------------------
(* The HTTP server: ThreadingHTTPServer gives each request a thread of its  *)
(* own, and the handlers share the one ChatService.  The threads switch     *)
(* between the calls a handler makes; the places of a switch modelled here  *)
(* are the return of _tick_time_update, the return of boucle_de_vie and the *)
(* return of ask_llm, whose HTTP request to LM Studio blocks the thread.    *)

\* boucle_de_vie up to the return of _tick_time_update: the engine then,
\* whether the call has ended there, and the value it has returned if so
boucle_de_vie_debut(e, h) ==
    LET perm == Permissions_autorise(e, "simulate")
    IN IF e.is_paused THEN [e |-> e, fini |-> TRUE, val |-> Str("Boucle en pause.")]
       ELSE IF ContrainteExecutionLocale_verifier_raises(e.contrainte_locale)
       THEN [e |-> e, fini |-> TRUE, val |-> Leve("RuntimeError")]
       ELSE IF ~perm.val
       THEN [e |-> perm.e, fini |-> TRUE, val |-> Str("Action refusee par permissions.")]
       ELSE [e |-> _tick_time_update([perm.e EXCEPT !.journal_debug = << >>], h),
             fini |-> FALSE, val |-> Rien]

\* boucle_de_vie from the return of _tick_time_update on
boucle_de_vie_suite(e, f) ==
    boucle_de_vie_decision(_passive_recovery(_evolve_world(e)), f)

\* the requests sent to the server
Requetes ==
    { [methode |-> "GET", path |-> "/state"],
      [methode |-> "GET", path |-> "/"],
      [methode |-> "GET", path |-> "/favicon.ico"],
      [methode |-> "POST", path |-> "/chat", json |-> FALSE],
      [methode |-> "POST", path |-> "/chat", json |-> TRUE,
       message |-> Message(FALSE, << >>), mode |-> "realtime"],
      [methode |-> "POST", path |-> "/chat", json |-> TRUE,
       message |-> Message(FALSE, << "bonjour" >>), mode |-> "realtime"],
      [methode |-> "POST", path |-> "/chat", json |-> TRUE,
       message |-> Message(TRUE, << "pause" >>), mode |-> "realtime"] }

\* the thread has called into the service and has not returned from it
EnCours(t) == fils[t].pc \in {"mi_tick", "llm", "fin"}

\* the thread t answers: it ends, and its answer is the latest returned
Repond(t, op, code, body) ==
    /\ fils' = [fils EXCEPT ![t] = Repos]
    /\ retour' = [op |-> op, thread |-> t, val |-> [code |-> code, body |-> body],
                  pendant |-> {u \in Threads \ {t} : EnCours(u)}]

\* the server accepts a request and starts a thread for it
Accepte(t) ==
    /\ pas < MaxPas
    /\ fils[t].pc = "repos"
    /\ \E requete \in Requetes : fils' = [fils EXCEPT ![t] = [pc |-> "recu", requete |-> requete]]
    /\ pas' = pas + 1
    /\ EngineUnchanged
    /\ UNCHANGED << heure, fs, retour, sauve, horloge, history >>

\* Handler.do_GET
do_GET(t) ==
    /\ fils[t].pc = "recu"
    /\ fils[t].requete.methode = "GET"
    /\ \E pret \in BOOLEAN :
          IF fils[t].requete.path = "/" THEN Repond(t, "do_GET", 200, Str("HTML_PAGE"))
          ELSE IF fils[t].requete.path = "/state"
          THEN Repond(t, "do_GET", 200, state_payload(Self, pret))
          ELSE Repond(t, "do_GET", 404, [error |-> "not_found"])
    /\ EngineUnchanged
    /\ UNCHANGED << heure, fs, sauve, pas, horloge, history >>

\* Handler.do_POST for a request that does not reach the service; a path
\* other than /chat is answered 404 the same way
do_POST_refus(t) ==
    /\ fils[t].pc = "recu"
    /\ fils[t].requete.methode = "POST"
    /\ IF ~fils[t].requete.json THEN Repond(t, "do_POST", 400, [error |-> "invalid_json"])
       ELSE /\ fils[t].requete.message.mots = << >>
            /\ ~fils[t].requete.message.slash
            /\ Repond(t, "do_POST", 400, [error |-> "message_required"])
    /\ EngineUnchanged
    /\ UNCHANGED << heure, fs, sauve, pas, horloge, history >>

\* the message of the request reaches the service
Recevable(t) ==
    /\ fils[t].pc = "recu"
    /\ fils[t].requete.methode = "POST"
    /\ fils[t].requete.json
    /\ fils[t].requete.message.mots # << >> \/ fils[t].requete.message.slash

\* Handler.do_POST for a slash command
do_POST_slash(t) ==
    /\ Recevable(t)
    /\ fils[t].requete.message.slash
    /\ \E env \in EnvsChat :
          \E r \in {handle_message_slash(Self, fs, history, fils[t].requete.message,
                                         horloge + env.dt, env)} :
             /\ Becomes(r.e)
             /\ history' = r.history
             /\ horloge' = horloge + env.dt
             /\ Repond(t, "do_POST", 200, r.val)
    /\ UNCHANGED << heure, fs, sauve, pas >>

\* Handler.do_POST for a plain message, up to the return of _tick_time_update
do_POST_tick_debut(t) ==
    /\ Recevable(t)
    /\ ~fils[t].requete.message.slash
    /\ \E r \in {boucle_de_vie_debut(Self, heure)} :
          /\ Becomes(r.e)
          /\ IF EstLeve(r.val)
             THEN /\ fils' = [fils EXCEPT ![t] = Repos]
                  /\ retour' = [op |-> "do_POST", thread |-> t, val |-> r.val,
                                pendant |-> {u \in Threads \ {t} : EnCours(u)}]
             ELSE /\ fils' = [fils EXCEPT ![t] =
                                 IF r.fini
                                 THEN [pc |-> "llm", requete |-> fils[t].requete,
                                       tick_log |-> r.val]
                                 ELSE [pc |-> "mi_tick", requete |-> fils[t].requete]]
                  /\ UNCHANGED retour
    /\ UNCHANGED << heure, fs, sauve, pas, horloge, history >>

\* ... from there to the return of boucle_de_vie
do_POST_tick_suite(t) ==
    /\ fils[t].pc = "mi_tick"
    /\ \E r \in {boucle_de_vie_suite(Self, fs)} :
          /\ Becomes(r.e)
          /\ fs' = r.fs
          /\ sauve' = Autosauve(r.e)
          /\ fils' = [fils EXCEPT ![t] = [pc |-> "llm", requete |-> fils[t].requete,
                                          tick_log |-> r.val]]
    /\ UNCHANGED << heure, retour, pas, horloge, history >>

\* ... from there to the return of ask_llm
do_POST_llm(t) ==
    /\ fils[t].pc = "llm"
    /\ \E env \in EnvsChat :
          \E a \in {ask_llm(Self, fils[t].requete.message.mots, fils[t].requete.mode,
                            horloge + env.dt, env)} :
             /\ Becomes(a.e)
             /\ horloge' = horloge + env.dt
             /\ fils' = [fils EXCEPT ![t] = [pc |-> "fin", requete |-> fils[t].requete,
                                             tick_log |-> fils[t].tick_log,
                                             llm_result |-> a.val]]
    /\ UNCHANGED << heure, fs, retour, sauve, pas, history >>

\* ... from there to the answer
do_POST_fin(t) ==
    /\ fils[t].pc = "fin"
    /\ \E pret \in BOOLEAN :
          \E e2 \in {_apply_commands(Self, fils[t].llm_result.commands)} :
             /\ Becomes(e2)
             /\ history' = Append(history, [user |-> fils[t].requete.message,
                                            assistant |-> Str(fils[t].llm_result.text),
                                            tick |-> e2.tick])
             /\ Repond(t, "do_POST", 200,
                       [reply |-> Str(fils[t].llm_result.text),
                        commands |-> fils[t].llm_result.commands,
                        meta |-> fils[t].llm_result.meta,
                        tick_log |-> fils[t].tick_log,
                        state |-> state_payload(e2, pret)])
    /\ UNCHANGED << heure, fs, sauve, pas, horloge >>

ServeurInit == ChatInit /\ heure = 21

ServeurNext ==
    \E t \in Threads :
       \/ Accepte(t)
       \/ do_GET(t)
       \/ do_POST_refus(t)
       \/ do_POST_slash(t)
       \/ do_POST_tick_debut(t)
       \/ do_POST_tick_suite(t)
       \/ do_POST_llm(t)
       \/ do_POST_fin(t)

ServeurRun == ServeurInit /\ [][ServeurNext]_vars

-----------------------------------------------------------------------------
(* Claims checked on ServeurRun *)

\* the thread t takes a step of its handler
Avance(t) == fils[t].pc # "repos" /\ fils'[t] # fils[t]

\* C13: the requests of the HTTP transport are serialized: a handler takes a
\* step (reads or mutates the shared engine) only while no other request has
\* called into the service and not yet returned from it, so that no request
\* observes or interleaves with a partially executed tick.
C13_Serialise ==
    [][\A t \in Threads :
          Avance(t) => \A u \in Threads \ {t} : ~EnCours(u)]_vars

-----------------------------------------------------------------------------
(* Text-generation requests on an engine that has run some ticks *)

\* the engine after n calls of boucle_de_vie at wall-clock hour h
RECURSIVE ApresTicks(_, _, _)
ApresTicks(e, h, n) ==
    IF n = 0 THEN e
    ELSE ApresTicks(boucle_de_vie(e, h, [file \in Files |-> Absent]).e, h, n - 1)

\* the prompts: one without a keyword of MockLLMEngine, one that asks for the
\* state with a capital, one that asks for an intention
Prompts == { << "bonjour" >>, << "Etat", "et", "proposition" >>, << "intention" >> }

\* the command lines that steer the router
Pilotages ==
    { << "model", "set", "qwen3.5-35b-a3b" >>, << "MODEL", "set", "QWEN2.5-14B" >>,
      << "model", "auto" >>, << "mode", "reflexion" >> }

LlmInit ==
    /\ heure = 21
    /\ \E n \in 0..MaxTick : IsFresh(ApresTicks(Fresh(42, heure), heure, n))
    /\ fs = [file \in Files |-> Absent]
    /\ retour = [op |-> "__init__", val |-> Rien]
    /\ sauve = [p \in Paths |-> None]
    /\ pas = 0
    /\ HoteInit

\* cerveau.ask_llm(prompt, mode)
Demande ==
    /\ pas < MaxDemandes
    /\ \E prompt \in Prompts, mode \in Modes, env \in Envs :
          \E a \in {ask_llm(Self, prompt, mode, horloge + env.dt, env)} :
             /\ Becomes(a.e)
             /\ horloge' = horloge + env.dt
             /\ retour' = [op |-> "ask_llm", mode |-> mode, lm |-> env.lm,
                           val |-> a.val, appels |-> a.appels, packet |-> a.packet]
    /\ pas' = pas + 1
    /\ UNCHANGED << heure, fs, sauve, history, fils >>

\* cerveau.handle_cli(ligne) for a line that steers the router
Pilote ==
    /\ pas < MaxDemandes
    /\ \E ligne \in Pilotages :
          \E r \in {handle_cli(Self, ligne, horloge, SansLMStudio)} :
             /\ Becomes(r.e)
             /\ retour' = [op |-> "handle_cli", val |-> r.val]
    /\ pas' = pas + 1
    /\ UNCHANGED << heure, fs, sauve >>
    /\ UNCHANGED hote

LlmNext == Demande \/ Pilote

LlmRun == LlmInit /\ [][LlmNext]_vars

-----------------------------------------------------------------------------
(* The validation of the commands of any engine that fits the LLMEngine     *)
(* protocol: the list of commands it returns is drawn                       *)

\* the command objects an engine returns: the five of the allow-list (the
\* SET_INTENTION with and without its value), a name that is not on the
\* list, a name of the list in lower case, an object without a name
Produites ==
    { Commande("GET_STATE"), Commande("PROPOSE"),
      CommandeValeur("SET_INTENTION", "stabiliser"), Commande("SET_INTENTION"),
      Commande("PAUSE"), Commande("RESUME"), Commande("SHELL_EXEC"),
      Commande("pause"), [value |-> "stabiliser"] }

Listes == UNION { [1..n -> Produites] : n \in 0..MaxCommandes }

\* cerveau.ask_llm(prompt, mode), the engine loaded under the chosen key
\* being one that returns the commands drawn; the validation keeps nothing
\* from one request to the next, so a run makes one request
DemandeExterne ==
    /\ pas = 0
    /\ \E commands \in Listes, mode \in {"realtime", "reflexion"} :
          \E a \in {ask_llm_fin([Self EXCEPT !.model_router.current_mode = mode],
                        build_context_packet(Self, mode),
                        ModelRouter_generate_fin(
                            _load_engine(model_router, "lmstudio-active"),
                            LLMResult("texte", commands,
                                      [latency_ms |-> LatenceLMStudio,
                                       model |-> Some("externe"), error |-> None]),
                            << [key |-> "lmstudio-active", mode |-> mode] >>))} :
             /\ Becomes(a.e)
             /\ retour' = [op |-> "ask_llm", mode |-> mode, produites |-> commands,
                           val |-> a.val, appels |-> a.appels, packet |-> a.packet]
    /\ pas' = pas + 1
    /\ UNCHANGED << heure, fs, sauve >>
    /\ UNCHANGED hote

ValideNext == DemandeExterne

ValideRun == LlmInit /\ [][ValideNext]_vars

-----------------------------------------------------------------------------
(* Claims checked on LlmRun *)

AppelLLM == retour.op = "ask_llm"

\* the engine chosen by the router raised
Echec ==
    /\ retour.appels[1].key = "lmstudio-active"
    /\ retour.lm \in {"injoignable", "malformee"}

\* C14: an exception raised by the engine the router chose triggers exactly
\* one more call, to the engine qwen2.5-14b in realtime mode; the error is
\* recorded in meta['error'] of the result and nothing is raised: generate
\* always returns a result.  Without an exception there is one call and no
\* error.
C14_SecoursUnique ==
    AppelLLM =>
        /\ ~EstLeve(retour.val)
        /\ retour.appels # << >>
        /\ retour.appels[1].mode =
              (IF retour.mode \in {"realtime", "reflexion"} THEN retour.mode
               ELSE model_router.current_mode)
        /\ Echec =>
              /\ Len(retour.appels) = 2
              /\ retour.appels[2] = [key |-> "qwen2.5-14b", mode |-> "realtime"]
              /\ retour.val.meta.error # None
              /\ The(retour.val.meta.error).cause = "fallback"
              /\ retour.val.meta.model = Some("qwen2.5-14b")
        /\ ~Echec =>
              /\ Len(retour.appels) = 1
              /\ retour.val.meta.error = None
              /\ retour.val.meta.model = Some(retour.appels[1].key)

\* C14 witness: LM Studio could not be reached by a request in reflexion
\* mode; qwen2.5-14b answered in realtime mode and the error is in the
\* metadata of the result.
C14_Witness ==
    /\ AppelLLM
    /\ retour.lm = "injoignable"
    /\ retour.appels = << [key |-> "lmstudio-active", mode |-> "reflexion"],
                          [key |-> "qwen2.5-14b", mode |-> "realtime"] >>
    /\ retour.val.meta.error = Some([cause |-> "fallback", exception |-> "RuntimeError"])
    /\ retour.val.text = "Je propose une action prudente"

\* C16: a call of ask_llm, whether the engine chosen answers, fails or is
\* replaced by the fallback, leaves tick, sim_minutes, both states, the
\* memory, the competences, the intention, the idea backlog and the
\* cooldowns as they were.
C16_DemandeSansEffet ==
    [][retour'.op = "ask_llm" =>
          UNCHANGED << tick, sim_minutes, etat, etat_monde, memoire, competences,
                       intention_active, idees_backlog, cooldowns >>]_vars

\* C16 witness: after two ticks, with an intention to recover or explore
\* active, a request that asks for an intention fell back on the mock model,
\* which answered with a SET_INTENTION command; the router has changed, the
\* intention has not.
C16_Witness ==
    /\ AppelLLM
    /\ tick = 2
    /\ Len(retour.appels) = 2
    /\ retour.val.commands = << CommandeValeur("SET_INTENTION", "stabiliser") >>
    /\ intention_active # None
    /\ The(intention_active).nom # "stabiliser"
    /\ ~model_router.lmstudio_available
    /\ llm_last_result = Some(retour.val)

-----------------------------------------------------------------------------
(* Claims checked on ValideRun *)

\* the command is on the allow-list and, if a SET_INTENTION, has its value
Permise(c) ==
    /\ "cmd" \in DOMAIN c
    /\ c.cmd \in {"GET_STATE", "PROPOSE", "SET_INTENTION", "PAUSE", "RESUME"}
    /\ c.cmd = "SET_INTENTION" => "value" \in DOMAIN c

\* kept is what is left of produites once the commands at the places that are
\* not in the range of f are dropped
Extrait(kept, produites, f) ==
    /\ \A i \in 1..Len(kept) : kept[i] = produites[f[i]]
    /\ \A i, j \in 1..Len(kept) : i < j => f[i] < f[j]
    /\ \A j \in 1..Len(produites) :
          (\A i \in 1..Len(kept) : f[i] # j) => ~Permise(produites[j])

\* C15: every command in the list ask_llm returns has a name of the
\* allow-list, and its value if it is a SET_INTENTION; the list is the list
\* the engine produced with every other command dropped, the commands kept
\* being in the order they were produced in.
C15_CommandesPermises ==
    (AppelLLM /\ "produites" \in DOMAIN retour) =>
        /\ \A i \in 1..Len(retour.val.commands) : Permise(retour.val.commands[i])
        /\ \E f \in [1..Len(retour.val.commands) -> 1..Len(retour.produites)] :
              Extrait(retour.val.commands, retour.produites, f)
        /\ llm_last_result = Some(retour.val)

\* C15 witness: the engine produced a SET_INTENTION without value, a PAUSE
\* and a command that is not on the list; only the PAUSE is returned.
C15_Witness ==
    /\ AppelLLM
    /\ retour.produites = << Commande("SET_INTENTION"), Commande("PAUSE"),
                             Commande("SHELL_EXEC") >>
    /\ retour.val.commands = << Commande("PAUSE") >>

-----------------------------------------------------------------------------
(* Claims checked on ChatRun *)

\* the step is a call of handle_message with a slash command, with a plain
\* message
RecuSlash == retour'.op = "handle_message" /\ retour'.message.slash
RecuNormal == retour'.op = "handle_message" /\ ~retour'.message.slash

\* the simulation is where it was
SimulationFigee ==
    UNCHANGED << tick, sim_minutes, sim_day_minutes, etat, etat_monde, memoire,
                 journal_evolutif, dashboard_history, journal_debug >>

\* the packet sent with the request was built on the state the step leaves
PaquetApresTick ==
    /\ retour'.appels # << >>
    /\ retour'.packet # None
    /\ The(retour'.packet).etat_resume =
          [energy |-> Round3(etat'.energy), stress |-> Round3(etat'.stress),
           stability |-> Round3(etat'.stability),
           danger |-> Round3(etat_monde'.danger), phase |-> sim_day_phase']
    /\ The(retour'.packet).derniers_evenements = Tail_n(memoire'.court_terme, 8)

\* is_paused after the commands of the answer are applied in their order
RECURSIVE PauseApres(_, _)
PauseApres(p, commands) ==
    IF commands = << >> THEN p
    ELSE PauseApres(IF Head(commands).cmd = "PAUSE" THEN TRUE
                    ELSE IF Head(commands).cmd = "RESUME" THEN FALSE
                    ELSE p, Tail(commands))

CommandesAppliquees == is_paused' = PauseApres(is_paused, retour'.val.commands)

-----------------------------------------------------------------------------
(* Command lines, recognised or not *)

\* the lines given to handle_cli: the commands, some in capitals, and lines
\* that are no command: an unknown word, the empty line, a command followed
\* by a word, a mode that does not exist, "model set" without a key and with
\* keys that are not in the registry
Lignes ==
    { << "etat" >>, << "propose" >>, << "idees" >>, << "resume" >>,
      << "PAUSE" >>, << "reprendre" >>, << "suggere", "rest" >>, << "model", "status" >>, << "model", "auto" >>,
      << "model", "set", "qwen3.5-35b-a3b" >>, << "MODEL", "set", "QWEN2.5-14B" >>,
      << "mode", "reflexion" >>, << "llm", "ask" >>,
      << "danse" >>, << >>, << "etat", "x" >>, << "mode", "turbo" >>,
      << "model", "set" >>, << "model", "set", "gpt-4" >>,
      << "model", "set", "qwen2.5-14b", "x" >> }

\* cerveau.handle_cli(ligne)
Ligne ==
    /\ pas < MaxDemandes
    /\ \E ligne \in Lignes, env \in EnvsChat :
          \E r \in {handle_cli(Self, ligne, horloge + env.dt, env)} :
             /\ Becomes(r.e)
             /\ horloge' = horloge + env.dt
             /\ retour' = [op |-> "handle_cli", ligne |-> ligne, val |-> r.val]
    /\ pas' = pas + 1
    /\ UNCHANGED << heure, fs, sauve, history, fils >>

CmdTick == tick < MaxTick /\ Tick

CmdInit == ChatInit /\ heure = 21

CmdNext == CmdTick \/ Ligne

CmdRun == CmdInit /\ [][CmdNext]_vars

-----------------------------------------------------------------------------
(* Claims checked on CmdRun *)

\* the words of the line, in lower case, are a command of handle_cli
Reconnue(c) ==
    \/ c \in { << "etat" >>, << "resume" >>, << "idees" >>, << "propose" >>,
               << "pause" >>, << "reprendre" >>, << "model", "status" >>,
               << "model", "auto" >>, << "mode", "realtime" >>,
               << "mode", "reflexion" >>, << "llm", "ask" >>, << "bench" >> }
    \/ Len(c) >= 2 /\ c[1] = "suggere"
    \/ Len(c) >= 3 /\ c[1] = "model" /\ c[2] = "set"

\* the line is a "model set" and what follows is a key of the registry
CleConnue(c) ==
    /\ Len(c) = 3 /\ c[1] = "model" /\ c[2] = "set"
    /\ c[3] \in {"lmstudio-active", "qwen2.5-14b", "qwen3.5-35b-a3b"}

LigneRecue == retour'.op = "handle_cli" /\ "ligne" \in DOMAIN retour'

\* C18: a line that is no command is answered "Commande non reconnue.", a
\* "model set" with a key that is not in the registry is answered "Modele
\* inconnu."; in both cases nothing of the engine changes, the settings of
\* the router included.  A "model set" with a key of the registry is
\* answered "Modele force." and forces the key.
C18_LigneInvalide ==
    [][LigneRecue =>
          LET c == [i \in 1..Len(retour'.ligne) |-> Lower(retour'.ligne[i])]
          IN /\ ~Reconnue(c) =>
                   /\ retour'.val = Str("Commande non reconnue.")
                   /\ EngineUnchanged
             /\ (Reconnue(c) /\ Len(c) >= 3 /\ c[1] = "model" /\ ~CleConnue(c)) =>
                   /\ retour'.val = Str("Modele inconnu.")
                   /\ EngineUnchanged
             /\ CleConnue(c) =>
                   /\ retour'.val = Str("Modele force.")
                   /\ model_router'.forced_model_key = Some(c[3])
                   /\ ~model_router'.auto_mode
             /\ Reconnue(c) => retour'.val # Str("Commande non reconnue.")]_vars

\* C18 witness: on an engine that has run a tick and whose router is forced
\* on qwen3.5-35b-a3b, "model set gpt-4" was answered "Modele inconnu." and
\* the router is still forced on qwen3.5-35b-a3b.
C18_Witness ==
    /\ retour.op = "handle_cli"
    /\ "ligne" \in DOMAIN retour
    /\ retour.ligne = << "model", "set", "gpt-4" >>
    /\ retour.val = Str("Modele inconnu.")
    /\ tick >= 1
    /\ model_router.forced_model_key = Some("qwen3.5-35b-a3b")
    /\ ~model_router.auto_mode

-----------------------------------------------------------------------------
(* The writes of save_snapshot, one at a time: the process can end between  *)
(* two of them                                                               *)

\* a save_snapshot has begun and has not written the .bak yet
EnEcriture ==
    /\ retour.op = "save_snapshot"
    /\ "etape" \in DOMAIN retour
    /\ retour.etape \in {"copie", "primaire"}

\* save_snapshot(SnapPath) up to the copy of the primary into the .bak
SaveCopie ==
    /\ pas < MaxOps
    /\ ~EnEcriture
    /\ \E perm \in {Permissions_autorise(Self, "snapshot")} :
          IF ~perm.val
          THEN /\ Becomes(perm.e)
               /\ retour' = [op |-> "save_snapshot", etape |-> "refus"]
               /\ fs' = fs
          ELSE /\ EngineUnchanged
               /\ fs' = save_snapshot_copie(fs, SnapPath)
               /\ retour' = [op |-> "save_snapshot", etape |-> "copie",
                             ancien |-> fs[Primary(SnapPath)],
                             bak |-> fs[Backup(SnapPath)],
                             payload |-> json_dumps(snapshot_dict(Self))]
    /\ pas' = pas + 1
    /\ UNCHANGED << heure, sauve >>
    /\ UNCHANGED hote

\* p.write_text(payload)
SavePrimaire ==
    /\ EnEcriture
    /\ retour.etape = "copie"
    /\ fs' = save_snapshot_primaire(fs, SnapPath, retour.payload)
    /\ retour' = [retour EXCEPT !.etape = "primaire"]
    /\ EngineUnchanged
    /\ UNCHANGED << heure, sauve, pas >>
    /\ UNCHANGED hote

\* backup.write_text(payload), and save_snapshot returns
SaveBak ==
    /\ EnEcriture
    /\ retour.etape = "primaire"
    /\ fs' = save_snapshot_bak(fs, SnapPath, retour.payload)
    /\ retour' = [retour EXCEPT !.etape = "fin"]
    /\ sauve' = [sauve EXCEPT ![SnapPath] = Some(Self)]
    /\ EngineUnchanged
    /\ UNCHANGED << heure, pas >>
    /\ UNCHANGED hote

\* the process ends in the middle of save_snapshot and a new engine is
\* constructed with the same seed; the files stay as the writes left them
Panne ==
    /\ pas < MaxOps
    /\ EnEcriture
    /\ Becomes(Fresh(21, heure))
    /\ retour' = [op |-> "__init__", val |-> Rien]
    /\ pas' = pas + 1
    /\ UNCHANGED << heure, fs, sauve >>
    /\ UNCHANGED hote

EcritTick == ~EnEcriture /\ tick < MaxTick /\ Tick
EcritLoad == ~EnEcriture /\ Load
EcritDamage == ~EnEcriture /\ Damage

EcritNext ==
    EcritTick \/ SaveCopie \/ SavePrimaire \/ SaveBak \/ Panne \/ EcritLoad \/ EcritDamage

EcritRun == SnapInit /\ [][EcritNext]_vars

-----------------------------------------------------------------------------
(* Claims checked on EcritRun *)

Sauvegarde == retour.op = "save_snapshot" /\ retour.etape # "refus"

\* C19: a permitted save_snapshot writes the primary and the .bak: when it
\* returns both hold the snapshot of the engine.  The content the primary
\* had, if there was a primary, is in the .bak before the primary is
\* written and is still there once it is written: until the .bak is written
\* in its turn, the .bak is the primary of before the call.
C19_CopieAvantEcriture ==
    Sauvegarde =>
        /\ retour.payload = json_dumps(snapshot_dict(Self))
        /\ retour.etape = "copie" =>
              /\ fs[Primary(SnapPath)] = retour.ancien
              /\ retour.ancien # Absent => fs[Backup(SnapPath)] = retour.ancien
        /\ retour.etape = "primaire" =>
              /\ fs[Primary(SnapPath)] = retour.payload
              /\ retour.ancien # Absent => fs[Backup(SnapPath)] = retour.ancien
        /\ retour.etape = "fin" =>
              /\ fs[Primary(SnapPath)] = retour.payload
              /\ fs[Backup(SnapPath)] = retour.payload

\* C19 witness: the second save of a run has written its primary, the
\* snapshot of tick 2, and not yet its .bak, which holds the primary of the
\* first save, the snapshot of tick 1.
C19_Witness ==
    /\ Sauvegarde
    /\ retour.etape = "primaire"
    /\ tick = 2
    /\ retour.ancien.kind = "json"
    /\ retour.ancien.data.tick = 1
    /\ fs[Backup(SnapPath)] = retour.ancien
    /\ fs[Primary(SnapPath)].data.tick = 2

-----------------------------------------------------------------------------
(* Pause and resumption, by the command line and by the chat service *)

PauseTick == tick < MaxTick /\ Tick
PauseCli == pas < MaxDemandes /\ Cli
PauseRecoit == pas < MaxDemandes /\ Recoit

PauseInit == ChatInit /\ heure = 21

PauseNext == PauseTick \/ PauseCli \/ PauseRecoit

PauseRun == PauseInit /\ [][PauseNext]_vars

-----------------------------------------------------------------------------
(* Claims checked on PauseRun *)

\* the step holds a call of boucle_de_vie, and what the call returned
BoucleAppelee == retour'.op = "boucle_de_vie" \/ RecuNormal
RetourBoucle == IF retour'.op = "boucle_de_vie" THEN retour'.val ELSE retour'.val.tick_log

\* the step is a pause or reprendre command, a PAUSE or RESUME applied
CommandePause ==
    \/ retour'.op = "handle_cli"
          /\ retour'.val \in {Str("Boucle mise en pause."), Str("Boucle reprise.")}
    \/ RecuSlash
          /\ retour'.val.reply \in {Str("Boucle mise en pause."), Str("Boucle reprise.")}
    \/ RecuNormal
          /\ \E i \in 1..Len(retour'.val.commands) :
                retour'.val.commands[i].cmd \in {"PAUSE", "RESUME"}

\* C20: on a paused engine a call of boucle_de_vie returns the pause message
\* and leaves tick, sim_minutes, both states, the memory and the journals
\* as they were; on an engine that is not paused, so after reprendre or a
\* RESUME applied, it runs a tick.  pause and an applied PAUSE pause the
\* engine, reprendre and an applied RESUME resume it, and is_paused changes
\* in no other step.
C20_PauseFige ==
    [][/\ (BoucleAppelee /\ is_paused) =>
             /\ RetourBoucle = Str("Boucle en pause.")
             /\ SimulationFigee
       /\ (BoucleAppelee /\ ~is_paused) =>
             /\ tick' = tick + 1
             /\ RetourBoucle # Str("Boucle en pause.")
       /\ retour'.op = "handle_cli" =>
             /\ retour'.val = Str("Boucle mise en pause.") => is_paused'
             /\ retour'.val = Str("Boucle reprise.") => ~is_paused'
       /\ RecuNormal => CommandesAppliquees
       /\ is_paused' # is_paused => CommandePause]_vars

\* C20 witness: an engine paused at tick 1 and resumed has run tick 2 in the
\* call of boucle_de_vie that followed.
C20_Witness ==
    /\ retour.op = "boucle_de_vie"
    /\ pas = 2
    /\ tick = 2
    /\ ~is_paused
    /\ retour.val # Str("Boucle en pause.")
    /\ Len(memoire.court_terme) = 2

-----------------------------------------------------------------------------
(* Claims checked on GateRun: the gates of _gated_actions *)

\* the step is a call of choisir_action, and the decision it logged
Decidee == retour'.op = "choisir_action"
DecisionPrise == journal_debug'[Len(journal_debug')]
Candidates == {DecisionPrise.cands[i] : i \in 1..Len(DecisionPrise.cands)}

\* the action is avoided or on cooldown at the tick of the decision
Bloquee(a) == memoire.long_terme[a].avoid_until_tick > tick \/ cooldowns[a] > tick

\* challenge is closed by the state
DefiFerme == etat.stability < 3000 \/ etat.stress > 8500

\* the actions the avoid and cooldown gate, the energy gate and the
\* stability and stress gates let through
Survivantes ==
    {a \in ActionSet :
        /\ ~Bloquee(a)
        /\ etat.energy < 2000 => a \in {"rest", "idle", "reflect"}
        /\ DefiFerme => a # "challenge"}

\* C21: at a decision at tick t no action avoided until after t or on
\* cooldown until after t, as these stand when gating starts, is a candidate
\* or chosen; but when the gates leave no candidate the candidates are rest
\* alone, avoided or on cooldown as rest may be.
C21_BloqueesExclues ==
    [][Decidee =>
          /\ DecisionPrise.chosen \in Candidates
          /\ retour'.val = Str(DecisionPrise.chosen)
          /\ IF Survivantes = {}
             THEN DecisionPrise.cands = << "rest" >>
             ELSE Candidates \subseteq Survivantes]_vars

\* C21 witness: with explore on cooldown and reflect avoided, both preferred
\* by the running intention to explore, at normal energy, neither is a
\* candidate and practice is chosen.
C21_Witness ==
    /\ retour.op = "choisir_action"
    /\ pas = 1
    /\ etat.energy = 2000
    /\ memoire.long_terme["reflect"].avoid_until_tick > tick
    /\ memoire.long_terme["rest"].avoid_until_tick <= tick
    /\ The(Decision.intention).nom = "explorer"
    /\ Decision.cands = << "practice" >>
    /\ Decision.chosen = "practice"

\* C22: when stability < 0.30 or stress > 0.85 at a decision, challenge is
\* no candidate and is not chosen, whatever the intention.
C22_DefiExclu ==
    [][(Decidee /\ DefiFerme) =>
          /\ "challenge" \notin Candidates
          /\ DecisionPrise.chosen # "challenge"
          /\ retour'.val # Str("challenge")]_vars

\* C22 witness: stress is just above 0.85 and stability at 0.30; the
\* running intention to recover has none of its preferred actions left, so
\* the candidates are all the other actions but challenge.
C22_Witness ==
    /\ retour.op = "choisir_action"
    /\ pas = 1
    /\ etat.stress = 8501 /\ etat.stability = 3000
    /\ etat.energy = 2000
    /\ The(Decision.intention).nom = "recuperer"
    /\ Decision.cands = << "organize", "practice", "explore" >>

\* the actions the intention of the decision prefers
Preferees ==
    {The(DecisionPrise.intention).actions_preferees[i] :
        i \in 1..Len(The(DecisionPrise.intention).actions_preferees)}

\* C23: when an action the intention prefers is left by the avoid and
\* cooldown, energy, stability and stress gates, the candidates are the
\* preferred actions that are left and the action chosen is one of them; when
\* none is left, the candidates are the actions the gates leave and the
\* choice is made among them.
C23_IntentionGuide ==
    [][Decidee =>
          /\ DecisionPrise.intention # None
          /\ DecisionPrise.chosen \in Candidates
          /\ IF Preferees \cap Survivantes # {}
             THEN /\ Candidates = Preferees \cap Survivantes
                  /\ DecisionPrise.chosen \in Preferees
             ELSE IF Survivantes # {}
             THEN Candidates = Survivantes
             ELSE DecisionPrise.cands = << "rest" >>]_vars

\* C23 witness: the intention to recover runs and rest, reflect and idle are
\* all avoided or on cooldown; the candidates are the four other actions and
\* one of them is chosen.
C23_Witness ==
    /\ retour.op = "choisir_action"
    /\ pas = 1
    /\ The(Decision.intention).nom = "recuperer"
    /\ etat.stress = 2500
    /\ Decision.cands = << "organize", "practice", "explore", "challenge" >>
    /\ Decision.chosen \in {"organize", "practice", "explore", "challenge"}

-----------------------------------------------------------------------------
(* Claims checked on LongRun: the intention through the ticks *)

\* the step is a tick; the state its decision was taken in, as
\* _state_snapshot recorded it before choisir_action, and the decision
TickFait == retour'.op = "boucle_de_vie" /\ tick' = tick + 1
Avant == journal_debug'[2].before
Choix == journal_debug'[1]
Resultat == journal_debug'[2].result

\* the intention the tick starts with cannot be kept
Invalide ==
    \/ intention_active = None
    \/ tick' > The(intention_active).tick_fin
    \/ /\ The(intention_active).cancel_on_critical
       /\ (Avant.etat.energy < 1500 \/ Avant.etat.stress > 9000)

\* the ticks an intention of that name is given when it is installed
Duree(nom) ==
    CASE nom = "tester une idee" -> 5..12
      [] nom = "recuperer" -> 6..12
      [] nom = "stabiliser" -> 6..12
      [] nom = "explorer" -> 8..20
      [] nom = "progresser" -> 6..16

\* the intention was installed at this decision
Installee(i) == i.tick_fin - tick' \in Duree(i.nom)

\* C24: at a decision the intention is replaced if it is absent, expired
\* (tick > tick_fin) or the state is critical (energy < 0.15 or stress >
\* 0.90) and it is to be cancelled on a critical state, and only then:
\* otherwise it is kept as it is.  So gating runs with an intention, and one
\* whose tick_fin is not below the tick.
C24_RemplacementIntention ==
    [][TickFait =>
          /\ Avant.intention = intention_active
          /\ Choix.intention # None
          /\ The(Choix.intention).tick_fin >= tick'
          /\ IF Invalide THEN Installee(The(Choix.intention))
             ELSE Choix.intention = intention_active]_vars

\* C24 witness: a tick whose intention had not expired and whose state at
\* the decision was critical: another intention, to recover, was installed.
C24_Witness ==
    /\ retour.op = "boucle_de_vie"
    /\ tick > 0
    /\ journal_debug[2].before.intention # None
    /\ The(journal_debug[2].before.intention).tick_fin > tick
    /\ The(journal_debug[2].before.intention).nom = "explorer"
    /\ journal_debug[2].before.etat.energy < 1500
    /\ The(journal_debug[1].intention).nom = "recuperer"

\* C25: at the end of a tick whose rare event is near_failure, stress_spike
\* or success_major there is no intention; at the end of a tick with any
\* other event, none included, the intention that guided the decision of the
\* tick is the intention.
C25_EvenementEfface ==
    [][TickFait =>
          /\ Resultat.rare_event \in {RareEvents[i] : i \in 1..Len(RareEvents)} \cup {"none"}
          /\ IF Resultat.rare_event \in {"near_failure", "stress_spike", "success_major"}
             THEN intention_active' = None
             ELSE /\ intention_active' = Choix.intention
                  /\ intention_active' # None]_vars

\* C25 witness: a tick that ended on a major success has no intention left,
\* the decision of the tick having been guided by one.
C25_Witness ==
    /\ retour.op = "boucle_de_vie"
    /\ tick > 0
    /\ journal_debug[2].result.rare_event = "success_major"
    /\ journal_debug[1].intention # None
    /\ intention_active = None

-----------------------------------------------------------------------------
(* Selections of an intention: long runs of fresh engines, and of engines   *)
(* whose state calls for each kind of intention                              *)

\* moods that make Stabilize active, by the stability and by the stress
HumeursInstables ==
    { [stability |-> 4000, stress |-> 2500], [stability |-> 7000, stress |-> 6600] }

\* the default energy, and one that makes Recover active
EnergiesSelection == {7000, 3000}

IntentInit ==
    /\ heure \in Heures
    /\ \/ \E seed \in Seeds \cup {10, 58} : IsFresh(Fresh(seed, heure))
       \/ /\ heure = 21
          /\ \E energy \in EnergiesSelection, humeur \in HumeursInstables :
                IsFresh(Prepared(21, heure, energy, humeur, None, << >>, {}, {}))
    /\ fs = [file \in Files |-> Absent]
    /\ retour = [op |-> "__init__", val |-> Rien]
    /\ sauve = [p \in Paths |-> None]
    /\ pas = 0
    /\ HoteInit

IntentTick == tick < MaxLongTick /\ Tick

IntentNext == IntentTick

IntentRun == IntentInit /\ [][IntentNext]_vars

-----------------------------------------------------------------------------
(* Claims checked on IntentRun *)

\* the Recover and the Stabilize objective are active in the state
RecoverActif(s) == s.energy < 3500 \/ s.clarity < 3500 \/ s.fatigue > 7000
StabilizeActif(s) == s.stability < 4500 \/ s.stress > 6500

\* the intention installed is the one the state calls for once the backlog
\* calls for none: Recover, else Stabilize, else Explore if the novelty of
\* the world is above 0.55, else Progress, with an expiry 6 to 20 ticks ahead
SelonEtat(i) ==
    /\ i.tick_fin - tick' \in 6..20
    /\ i.nom = (IF RecoverActif(Avant.etat) THEN "recuperer"
                ELSE IF StabilizeActif(Avant.etat) THEN "stabiliser"
                ELSE IF Avant.monde.nouveaute > 5500 THEN "explorer"
                ELSE "progresser")
    /\ i.objectif_lie = (IF RecoverActif(Avant.etat) THEN "Recover"
                         ELSE IF StabilizeActif(Avant.etat) THEN "Stabilize"
                         ELSE IF Avant.monde.nouveaute > 5500 THEN "Explore"
                         ELSE "Progress")

\* the intention installed is the one that tests an idea, with an expiry 5
\* to 12 ticks ahead
SelonIdee(i) ==
    /\ i.nom = "tester une idee"
    /\ i.objectif_lie = "Idea"
    /\ i.tick_fin - tick' \in 5..12

\* C26 as stated: when an intention is selected, it is the one that tests an
\* idea if the entry of the backlog with the highest priority has a priority
\* above 0.7, and else the one the state calls for.
C26_Original ==
    [][(TickFait /\ Invalide) =>
          IF \E k \in 1..Len(idees_backlog) : idees_backlog[k].priorite > 7000
          THEN SelonIdee(The(Choix.intention))
          ELSE SelonEtat(The(Choix.intention))]_vars

\* C26 amended: when an intention is selected, it is the one that tests an
\* idea if the first entry of the backlog, the entry ranked first by priority
\* minus decay when the backlog was last sorted, has a priority above 0.7,
\* and else the one the state calls for.
C26_SelectionIntention ==
    [][(TickFait /\ Invalide) =>
          IF idees_backlog # << >> /\ idees_backlog[1].priorite > 7000
          THEN SelonIdee(The(Choix.intention))
          ELSE SelonEtat(The(Choix.intention))]_vars

\* C26 witness: an intention to stabilise was installed, for 6 to 12 ticks,
\* at the first tick of an engine with low stability, Recover not being
\* active and the backlog empty.
C26_Witness ==
    /\ retour.op = "boucle_de_vie"
    /\ tick = 1
    /\ journal_debug[2].before.intention = None
    /\ ~RecoverActif(journal_debug[2].before.etat)
    /\ journal_debug[2].before.etat.stability < 4500
    /\ The(journal_debug[1].intention).nom = "stabiliser"
    /\ The(journal_debug[1].intention).tick_fin - tick \in 6..12

\* the place of an objective in the declaration of _build_objectifs
RangObjectif(name) ==
    CASE name = "Recover" -> 1 [] name = "Stabilize" -> 2
      [] name = "Explore" -> 3 [] name = "Progress" -> 4

ObjectifsActifs == _active_objectifs(Self)

\* C27: in every state Progress is among the active objectives if and only
\* if neither Recover nor Stabilize is, the active objectives are listed in
\* the order of their declaration, each once, and there is at least one.
C27_ProgressParDefaut ==
    /\ InSeq("Progress", ObjectifsActifs)
          <=> ~(InSeq("Recover", ObjectifsActifs) \/ InSeq("Stabilize", ObjectifsActifs))
    /\ InSeq("Recover", ObjectifsActifs) <=> RecoverActif(etat)
    /\ InSeq("Stabilize", ObjectifsActifs) <=> StabilizeActif(etat)
    /\ \A i, j \in 1..Len(ObjectifsActifs) :
          i < j => RangObjectif(ObjectifsActifs[i]) < RangObjectif(ObjectifsActifs[j])
    /\ ObjectifsActifs # << >>

\* C27 witness: after some ticks Recover and Stabilize are both active, and
\* Progress is not.
C27_Witness ==
    /\ tick > 0
    /\ retour.op = "boucle_de_vie"
    /\ RecoverActif(etat) /\ StabilizeActif(etat)
    /\ ObjectifsActifs = << "Recover", "Stabilize" >>

\* the experience an execution adds
Gain == IF Resultat.success THEN 3000 ELSE 1200

\* y is x times 1.25, cut at the last digit kept
Fois125(x, y) == 5 * x - 4 * y \in 0..3

\* C28: for every action, through every tick: niveau >= 1 and does not
\* decrease, experience >= 0, seuil > 0 and experience < seuil.  The
\* execution of an action adds 0.30 to its experience on a success and 0.12
\* on a failure; when that reaches the threshold the level goes up by one,
\* what exceeds the threshold is kept as experience and the threshold is
\* multiplied by 1.25.  The other actions keep their competence.
C28_Competence ==
    [][TickFait =>
          /\ \A a \in ActionSet :
                /\ competences'[a].niveau >= competences[a].niveau
                /\ competences[a].niveau >= 1
                /\ competences'[a].experience >= 0
                /\ competences'[a].seuil > 0
                /\ competences'[a].experience < competences'[a].seuil
                /\ a # Choix.chosen => competences'[a] = competences[a]
          /\ LET avant == competences[Choix.chosen]
                 apres == competences'[Choix.chosen]
             IN IF avant.experience + Gain >= avant.seuil
                THEN /\ apres.niveau = avant.niveau + 1
                     /\ apres.experience = avant.experience + Gain - avant.seuil
                     /\ Fois125(avant.seuil, apres.seuil)
                ELSE /\ apres.niveau = avant.niveau
                     /\ apres.experience = avant.experience + Gain
                     /\ apres.seuil = avant.seuil]_vars

\* C28 witness: an action has reached level 3 by a tick that carried
\* experience over its threshold of 1.25, which is now 1.5625.
C28_Witness ==
    /\ retour.op = "boucle_de_vie"
    /\ tick > 0
    /\ competences[journal_debug[1].chosen].niveau = 3
    /\ competences[journal_debug[1].chosen].experience \in 1..2999
    /\ competences[journal_debug[1].chosen].seuil = 15625
    /\ journal_debug[2].result.success
    /\ competences[journal_debug[1].chosen].experience < 1200

\* the rank of an idea of the backlog at the current tick
RangIdee(i) == idees_backlog[i].priorite - 20 * (tick - idees_backlog[i].recence_tick)

\* C29: after every tick the idea backlog holds at most 25 entries and is
\* in the order of decreasing rank (priority minus 0.002 per tick of age),
\* the ticks on which a level-up adds an idea included.
C29_BacklogOrdonne ==
    retour.op = "boucle_de_vie" =>
        /\ Len(idees_backlog) <= 25
        /\ \A i \in 1..Len(idees_backlog) - 1 : RangIdee(i) >= RangIdee(i + 1)

\* the short-term log before and after a tick
Journal == memoire.court_terme
JournalApres == memoire'.court_terme

\* C30: the short-term memory never holds more than 80 records.  Each tick
\* appends one record of its outcome at the end; when that makes 81 the
\* oldest record is removed, so the log holds the most recent records, one
\* per tick, in the order of the ticks.
C30_MemoireCourte ==
    [][TickFait =>
          /\ Len(JournalApres) <= 80
          /\ Len(JournalApres) = IF Len(Journal) = 80 THEN 80 ELSE Len(Journal) + 1
          /\ LET dernier == JournalApres[Len(JournalApres)]
             IN /\ dernier.tick = tick'
                /\ dernier.action = Choix.chosen
                /\ dernier.success = Resultat.success
                /\ dernier.rare_event = Resultat.rare_event
          /\ SubSeq(JournalApres, 1, Len(JournalApres) - 1)
                = IF Len(Journal) = 80 THEN Tail(Journal) ELSE Journal
          /\ \A i \in 1..Len(JournalApres) :
                JournalApres[i].tick = tick' - Len(JournalApres) + i]_vars

\* C30 witness: the log is full and its oldest record is no longer the one
\* of tick 1: records have been evicted.
C30_Witness ==
    /\ retour.op = "boucle_de_vie"
    /\ Len(Journal) = 80
    /\ Journal[1].tick > 1
    /\ Journal[80].tick = tick

-----------------------------------------------------------------------------
(* Claims checked on LongRun: the notable memories *)

Souvenirs == memoire.souvenirs_marquants
SouvenirsApres == memoire'.souvenirs_marquants

\* C31: no internal state out of range is observable.  A tick with a rare
\* event appends exactly one notable memory and a tick with the event
\* "none" appends none (counted on the ticks without consolidation, which
\* forgets the light memories); the internal state kept in every notable
\* memory, like the state of the engine and the states of the debug
\* journal, has its 7 fields within [0, 1].
C31_SouvenirsBornes ==
    [][TickFait =>
          /\ tick' % CONSOLIDATION_EVERY_TICKS # 0 =>
                Len(SouvenirsApres) = Len(Souvenirs)
                    + (IF Resultat.rare_event = "none" THEN 0 ELSE 1)
          /\ InRange(etat')
          /\ InRange(Avant.etat)
          /\ InRange(journal_debug'[2].after.etat)
          /\ \A i \in 1..Len(SouvenirsApres) :
                /\ DOMAIN SouvenirsApres[i].state = DOMAIN etat
                /\ InRange(SouvenirsApres[i].state)]_vars

-----------------------------------------------------------------------------
(* Claims checked on IntentRun: the meta-learning *)

\* the last 20 records of the short-term log after the tick, and how many
\* of them are failures and rests
Fenetre == Tail_n(memoire'.court_terme, 20)
EchecsRecents == Cardinality({i \in 1..Len(Fenetre) : ~Fenetre[i].success})
ReposRecents == Cardinality({i \in 1..Len(Fenetre) : Fenetre[i].action = "rest"})

\* C32: through every tick the audacity stays within [0.85, 1.10] and the
\* diversity within [0.90, 1.20].  The audacity loses 0.02 when more than
\* 0.45 of the last 20 records are failures and gains 0.01 when fewer than
\* 0.25 are, and is kept otherwise; the diversity gains 0.03 when more than
\* 0.40 of them are rests and loses 0.01 otherwise; both stop at their
\* bounds.
C32_MetaBornee ==
    [][TickFait =>
          /\ meta'.audace >= 8500 /\ meta'.audace <= 11000
          /\ meta'.diversite >= 9000 /\ meta'.diversite <= 12000
          /\ meta'.audace =
                IF 100 * EchecsRecents > 45 * Len(Fenetre)
                THEN (IF meta.audace - 200 < 8500 THEN 8500 ELSE meta.audace - 200)
                ELSE IF 100 * EchecsRecents < 25 * Len(Fenetre)
                THEN (IF meta.audace + 100 > 11000 THEN 11000 ELSE meta.audace + 100)
                ELSE meta.audace
          /\ meta'.diversite =
                IF 100 * ReposRecents > 40 * Len(Fenetre)
                THEN (IF meta.diversite + 300 > 12000 THEN 12000 ELSE meta.diversite + 300)
                ELSE (IF meta.diversite - 100 < 9000 THEN 9000
                      ELSE meta.diversite - 100)]_vars

\* C32 witness: after a tick whose last records are mostly failures the
\* audacity is on its floor.
C32_Witness ==
    /\ retour.op = "boucle_de_vie"
    /\ tick > 0
    /\ meta.audace = 8500
    /\ LET w == Tail_n(memoire.court_terme, 20)
       IN 100 * Cardinality({i \in 1..Len(w) : ~w[i].success}) > 45 * Len(w)

-----------------------------------------------------------------------------
(* The routing of the requests: which engine answers, and when LM Studio is *)
(* tried again                                                              *)

\* LM Studio answers a request or not, answers a probe or not, one or two
\* seconds after the call before
EnvsRoute == [lm : {"injoignable", "texte"}, sonde : BOOLEAN, dt : {1, 2}]

\* the command lines that force a key or give the choice back to the router
PilotagesRoute ==
    { << "model", "set", "lmstudio-active" >>, << "model", "set", "qwen3.5-35b-a3b" >>,
      << "model", "auto" >> }

\* a fresh engine, or one whose first request found LM Studio unreachable
RouteInit ==
    /\ heure = 21
    /\ \E echec \in BOOLEAN :
          IsFresh(IF echec
                  THEN ask_llm(Fresh(42, heure), << "bonjour" >>, "realtime", 0,
                               SansLMStudio).e
                  ELSE Fresh(42, heure))
    /\ fs = [file \in Files |-> Absent]
    /\ retour = [op |-> "__init__", val |-> Rien]
    /\ sauve = [p \in Paths |-> None]
    /\ pas = 0
    /\ HoteInit

\* cerveau.ask_llm(prompt, mode)
RouteDemande ==
    /\ pas < MaxRoutes
    /\ \E mode \in {"realtime", "reflexion"}, env \in EnvsRoute :
          \E a \in {ask_llm(Self, << "bonjour" >>, mode, horloge + env.dt, env)} :
             /\ Becomes(a.e)
             /\ horloge' = horloge + env.dt
             /\ retour' = [op |-> "ask_llm", mode |-> mode, lm |-> env.lm,
                           sonde |-> env.sonde, val |-> a.val, appels |-> a.appels]
    /\ pas' = pas + 1
    /\ UNCHANGED << heure, fs, sauve, history, fils >>

\* cerveau.handle_cli(ligne) for a line that forces a key or frees the choice
RoutePilote ==
    /\ pas < MaxRoutes
    /\ \E ligne \in PilotagesRoute :
          \E r \in {handle_cli(Self, ligne, horloge, SansLMStudio)} :
             /\ Becomes(r.e)
             /\ retour' = [op |-> "handle_cli", ligne |-> ligne, val |-> r.val]
    /\ pas' = pas + 1
    /\ UNCHANGED << heure, fs, sauve >>
    /\ UNCHANGED hote

RouteNext == RouteDemande \/ RoutePilote

RouteRun == RouteInit /\ [][RouteNext]_vars

-----------------------------------------------------------------------------
(* Claims checked on RouteRun *)

\* a request has been routed: the key chosen is the one of the first call
Routee == retour'.op = "ask_llm"
CleChoisie == retour'.appels[1].key

\* a key is forced on the router
Forcee == ~model_router.auto_mode /\ model_router.forced_model_key # None

\* the local model of a mode
Locale(mode) == IF mode = "realtime" THEN "qwen2.5-14b" ELSE "qwen3.5-35b-a3b"

\* C33: choose_model_key returns the forced key whenever the automatic mode
\* is off and a key is forced, in every mode; otherwise "lmstudio-active"
\* when LM Studio is marked reachable or a probe made now succeeds, and
\* otherwise the local model of the mode, qwen2.5-14b in realtime and
\* qwen3.5-35b-a3b in reflexion.  set_auto(true) clears the forced key.
C33_CleChoisie ==
    [][/\ Routee =>
             CleChoisie =
                IF Forcee THEN The(model_router.forced_model_key)
                ELSE IF model_router.lmstudio_available THEN "lmstudio-active"
                ELSE IF horloge' >= model_router.next_lmstudio_probe_at
                        /\ retour'.sonde
                     THEN "lmstudio-active"
                     ELSE Locale(retour'.mode)
       /\ (retour'.op = "handle_cli" /\ retour'.ligne = << "model", "auto" >>) =>
             /\ model_router'.auto_mode
             /\ model_router'.forced_model_key = None]_vars

\* C33 witness: a request in reflexion mode, with LM Studio marked
\* unreachable and no key forced, was answered by the local model of the mode.
C33_Witness ==
    /\ retour.op = "ask_llm"
    /\ retour.mode = "reflexion"
    /\ retour.appels[1].key = "qwen3.5-35b-a3b"
    /\ model_router.auto_mode
    /\ ~model_router.lmstudio_available

\* the local models
Locales == {"qwen2.5-14b", "qwen3.5-35b-a3b"}

\* a request arrived while LM Studio was marked unreachable
HorsLigne == Routee /\ ~model_router.lmstudio_available

\* the request came before the date of the next probe
AvantSonde == horloge' < model_router.next_lmstudio_probe_at

\* LM Studio was called by the request
PrimaireAppele ==
    \E i \in 1..Len(retour'.appels) : retour'.appels[i].key = "lmstudio-active"

\* C34 as stated: once LM Studio has failed or been found unreachable, every
\* request that arrives before next_lmstudio_probe_at is answered by a local
\* model without a call to LM Studio; the first request after that date
\* probes once, moves the date by the interval of 2 s, and goes back to
\* LM Studio only if the probe succeeds.
C34_Original ==
    [][HorsLigne =>
          IF AvantSonde
          THEN /\ ~PrimaireAppele
               /\ CleChoisie \in Locales
               /\ model_router'.next_lmstudio_probe_at
                     = model_router.next_lmstudio_probe_at
               /\ ~model_router'.lmstudio_available
          ELSE /\ model_router'.next_lmstudio_probe_at = horloge' + 2
               /\ PrimaireAppele <=> retour'.sonde
               /\ ~retour'.sonde => CleChoisie \in Locales]_vars

\* C34: the same, for the requests routed with no key forced.
C34_SondeEspacee ==
    [][(HorsLigne /\ ~Forcee) =>
          IF AvantSonde
          THEN /\ ~PrimaireAppele
               /\ CleChoisie \in Locales
               /\ model_router'.next_lmstudio_probe_at
                     = model_router.next_lmstudio_probe_at
               /\ ~model_router'.lmstudio_available
          ELSE /\ model_router'.next_lmstudio_probe_at = horloge' + 2
               /\ PrimaireAppele <=> retour'.sonde
               /\ ~retour'.sonde => CleChoisie \in Locales]_vars

\* C34 witness: a request that came one second after a failure, while
\* LM Studio would have answered a probe, was answered by the local model
\* and left the date of the next probe in the future.
C34_Witness ==
    /\ retour.op = "ask_llm"
    /\ retour.sonde
    /\ model_router.auto_mode
    /\ ~model_router.lmstudio_available
    /\ Len(retour.appels) = 1
    /\ retour.appels[1].key # "lmstudio-active"
    /\ horloge < model_router.next_lmstudio_probe_at

-----------------------------------------------------------------------------
(* Claims checked on LongRun: the events in the scores *)

\* the context entries of the action executed, before and after the tick
ContextesAvant == memoire.long_terme[Choix.chosen].contexts
ContextesApres == memoire'.long_terme[Choix.chosen].contexts

\* the context in which the tick recorded its outcome
ContexteNote == CHOOSE k \in DOMAIN ContextesApres : ContextesApres[k] # ContextesAvant[k]

\* the entry of that context, and the same entry had the tick had no event
Note == ContextesApres[ContexteNote]
NoteSansEvenement == Some([The(Note) EXCEPT !.gravite = @ - 1])

\* C35: a recorded event of type discovery, success_major or
\* opportunity_exceptionnelle does not lower the memory-derived bias of the
\* action it is associated with, and a recorded event of type near_failure
\* or stress_spike lowers it: compared with the same state without the
\* event, the bias of the action is strictly lower.
C35_PolariteEvenements ==
    [][TickFait =>
          /\ Resultat.rare_event \in {"discovery", "success_major",
                                      "opportunity_exceptionnelle"} =>
                _context_bias_de(Note) >= _context_bias_de(NoteSansEvenement)
          /\ Resultat.rare_event \in {"near_failure", "stress_spike"} =>
                _context_bias_de(Note) < _context_bias_de(NoteSansEvenement)]_vars

-----------------------------------------------------------------------------
(* Claims checked on LongRun: the engine restored from its snapshot *)

SansFichier == [file \in Files |-> Absent]

\* a fresh engine that has loaded the snapshot the engine e saves, given the
\* random stream of e
Restauree(e) ==
    [load_snapshot(Fresh(21, heure), save_snapshot(e, SansFichier, SnapPath).fs,
                   SnapPath).e EXCEPT !._rng = e._rng]

\* the engine after one more tick
Suite(e) == boucle_de_vie(e, heure, SansFichier).e

\* C36: the engine that goes on after save_snapshot and a fresh engine that
\* loads the snapshot behave alike: with the same random draws, their next
\* tick chooses the same action and leaves the same internal state, world
\* state, memory and cooldowns, and adds the same day summaries.
C36_RepriseIdentique ==
    \E a \in {Suite(Self)}, b \in {Suite(Restauree(Self))} :
        /\ a.journal_debug[1].chosen = b.journal_debug[1].chosen
        /\ a.etat = b.etat
        /\ a.etat_monde = b.etat_monde
        /\ a.memoire = b.memoire
        /\ a.cooldowns = b.cooldowns
        /\ Len(a.journal_evolutif) - Len(journal_evolutif) = Len(b.journal_evolutif)

-----------------------------------------------------------------------------
(* Claims checked on CmdRun: the lines that ask without changing *)

\* the line received is one of the queries of handle_cli
Requete ==
    /\ LigneRecue
    /\ \/ retour'.ligne \in { << "etat" >>, << "propose" >>, << "idees" >>,
                              << "resume" >>, << "model", "status" >> }
       \/ Len(retour'.ligne) = 2 /\ retour'.ligne[1] = "suggere"

\* C37: the queries 'etat', 'propose', 'idees', 'resume', 'suggere <name>'
\* and 'model status' are read-only: the call leaves the active intention,
\* the cooldowns, the idea backlog and the rest of the engine state as they
\* were (the random stream and the debug journal set aside), so that the
\* next tick, given the same random draws, chooses the action it would have
\* chosen without the query.
C37_RequetesSansEffet ==
    [][Requete =>
          /\ UNCHANGED << tick, sim_minutes, sim_day_minutes, sim_day_phase,
                          _last_day_index, is_paused, etat, etat_monde,
                          intention_active, idees_backlog, memoire,
                          journal_evolutif, last_action_tick, competences,
                          action_history, meta, cooldowns, model_router,
                          llm_last_result >>
          /\ \E a \in {Suite(Self)}, b \in {Suite([Self' EXCEPT !._rng = _rng])} :
                a.journal_debug[1].chosen = b.journal_debug[1].chosen]_vars

-----------------------------------------------------------------------------
(* Claims checked on EcritRun: the save that is interrupted *)

\* what a new engine reads from the files as they are now
Relue == load_snapshot(Fresh(21, heure), fs, SnapPath)

\* C38: if save_snapshot is interrupted after any of its writes (the copy of
\* the primary into the .bak, the primary, the .bak), whatever the primary
\* held before, a load_snapshot that follows succeeds whenever the primary
\* or the .bak was a valid snapshot when the save began, and restores the
\* state saved before or the state being saved.
C38_InterruptionSure ==
    (Sauvegarde /\ (Readable(retour.ancien) \/ Readable(retour.bak))) =>
        \E r \in {Relue} :
            /\ r.val
            /\ json_dumps(snapshot_dict(r.e)) \in {retour.ancien, retour.bak, retour.payload}

-----------------------------------------------------------------------------
(* Snapshot documents that lack a key *)

\* the keys a document can have lost: the first one load_snapshot reads, one
\* it reads after it has assigned the time, and the last one it requires
Perdues == {"tick", "etat", "memoire"}

\* the document without the key k
Sans(data, k) == [x \in DOMAIN data \ {k} |-> data[x]]

\* a snapshot file was edited and its document has lost a key
Ampute ==
    /\ pas < MaxOps
    /\ \E file \in SnapFiles, k \in Perdues :
          /\ fs[file].kind = "json"
          /\ k \in DOMAIN fs[file].data
          /\ fs' = [fs EXCEPT ![file] = json_dumps(Sans(fs[file].data, k))]
          /\ sauve' = IF file = Primary(SnapPath)
                      THEN [sauve EXCEPT ![SnapPath] = None] ELSE sauve
          /\ retour' = [op |-> "ampute", val |-> Rien]
    /\ pas' = pas + 1
    /\ EngineUnchanged
    /\ UNCHANGED heure
    /\ UNCHANGED hote

\* the document load_snapshot reads from the files, if it can read one
Document ==
    IF Readable(fs[Primary(SnapPath)]) THEN Some(json_loads(fs[Primary(SnapPath)]))
    ELSE IF Readable(fs[Backup(SnapPath)]) THEN Some(json_loads(fs[Backup(SnapPath)]))
    ELSE None

\* load_snapshot(SnapPath): it returns a boolean, or an exception leaves it
DocLoad ==
    /\ pas < MaxOps
    /\ \E r \in {load_snapshot(Self, fs, SnapPath)} :
          /\ Becomes(r.e)
          /\ retour' = [op |-> "load_snapshot", document |-> Document,
                        val |-> IF r.leve # None THEN Leve(The(r.leve))
                                ELSE Bool(r.val)]
    /\ pas' = pas + 1
    /\ UNCHANGED << heure, fs, sauve >>
    /\ UNCHANGED hote

DocTick == tick < MaxTick /\ Tick

DocNext == DocTick \/ Save \/ Ampute \/ DocLoad

DocRun == SnapInit /\ [][DocNext]_vars

-----------------------------------------------------------------------------
(* Claims checked on DocRun *)

\* C39: load_snapshot is all or nothing, whatever the document: it returns
\* true and the state of the engine is the one of the document, or it
\* returns false and the engine is unchanged.  A document of the expected
\* version that lacks a required key leaves no engine half assigned, and no
\* exception leaves the call.
C39_ToutOuRien ==
    [][retour'.op = "load_snapshot" =>
          \/ /\ retour'.val = Bool(TRUE)
             /\ snapshot_dict(Self') = The(retour'.document)
          \/ /\ retour'.val = Bool(FALSE)
             /\ EngineUnchanged]_vars

-----------------------------------------------------------------------------
(* Claims checked on LongRun: the counters of the ticks *)

\* the trials of all the actions, and the routines of all actions and phases
Essais == SumSeq([i \in 1..Len(Actions) |-> memoire.long_terme[Actions[i]].n_total])
Routines ==
    SumSeq([i \in 1..Len(Actions) |->
               memoire.routines[Actions[i]]["night"] + memoire.routines[Actions[i]]["morning"]
               + memoire.routines[Actions[i]]["day"] + memoire.routines[Actions[i]]["evening"]])

\* C40: from a fresh engine driven by ticks alone, after every tick: the
\* action history has tick entries; for every action n_total is n_success
\* plus n_fail, and the n_total of all actions sum to tick; the routine
\* counters sum to tick; and for the action just executed the last_tick of
\* its long-term memory and its last_action_tick are the current tick.
C40_Compteurs ==
    /\ Len(action_history) = tick
    /\ \A a \in ActionSet :
          memoire.long_terme[a].n_total
              = memoire.long_terme[a].n_success + memoire.long_terme[a].n_fail
    /\ Essais = tick
    /\ Routines = tick
    /\ tick > 0 =>
          /\ memoire.long_terme[action_history[tick]].last_tick = tick
          /\ last_action_tick[action_history[tick]] = tick

\* C40 witness: after 100 ticks the actions executed are several, some of
\* them failed, and the routines are counted in more than one phase.
C40_Witness ==
    /\ tick = 100
    /\ Cardinality({a \in ActionSet : memoire.long_terme[a].n_total > 0}) >= 3
    /\ \E a \in ActionSet : memoire.long_terme[a].n_fail > 0
    /\ \E a \in ActionSet : memoire.routines[a]["night"] > 0
    /\ \E a \in ActionSet : memoire.routines[a]["morning"] > 0

====
